---------------------------- MODULE Spec2Model ----------------------------
(***************************************************************************)
(* A model of logzen's Logger (src/src/logger.ts), its capability adapters *)
(* (src/src/io.ts), the level enumeration (src/src/levels.ts) and the      *)
(* message formatter (formatMessage, src/unnamed/part_005).                *)
(*                                                                         *)
(* Two Logger instances, A and B, and a handful of external objects are    *)
(* modelled.  Every public operation is one action; a send is translated   *)
(* whole, fan-out to the attached endpoints and notifications included.    *)
(***************************************************************************)
EXTENDS Integers, Sequences, FiniteSets, TLC

VARIABLES
    io,        \* io[l]: the registry of logger l, in insertion order (a JS Set)
    entries,   \* entries[l]: the retained entries of logger l (_entries)
    options,   \* options[l]: the options logger l was constructed with
    clock,     \* performance.now(), in milliseconds
    effects,   \* what the last operation did, in order (writes, calls, emits)
    last,      \* the last operation: its name, arguments and outcome
    listeners, \* listeners[o]: the handlers loggers have subscribed on object o
    hist,      \* hist[l][o]: the levels given by attach since o's record was created
    snap,      \* the array a caller last got from the entries getter
    reading,   \* reading[s]: the for-await loop of ReadableStream.receive on stream s
    held       \* the message object a caller keeps and passes to send

vars == <<io, entries, options, clock, effects, last, listeners, hist, snap, reading, held>>

----------------------------------------------------------------------------
(* levels.ts *)

LOG   == 0
INFO  == 1
WARN  == 2
ERROR == 3
DEBUG == 4

allLogLevels == <<LOG, INFO, WARN, ERROR, DEBUG>>

Range(s) == {s[i] : i \in DOMAIN s}

Levels == Range(allLogLevels)

\* LogLevel[level]: the reverse mapping of the numeric enum
LevelName(level) ==
    CASE level = LOG   -> "LOG"
      [] level = INFO  -> "INFO"
      [] level = WARN  -> "WARN"
      [] level = ERROR -> "ERROR"
      [] level = DEBUG -> "DEBUG"

\* LowerLevelName as it would be without the toLowerCase()
LevelNameAsIs(level) == LevelName(level)

\* LogLevel[level].toLowerCase()
LowerLevelName(level) ==
    CASE level = LOG   -> "log"
      [] level = INFO  -> "info"
      [] level = WARN  -> "warn"
      [] level = ERROR -> "error"
      [] level = DEBUG -> "debug"

----------------------------------------------------------------------------
(* JavaScript values *)

\* the value undefined (an absent argument, an absent property)
Undefined == "<undefined>"

\* ToBoolean of a string-or-undefined value
Truthy(v) == v # Undefined /\ v # ""

\* String(v) of a string-or-undefined value
JsString(v) == IF v = Undefined THEN "undefined" ELSE v

----------------------------------------------------------------------------
(* The objects of the environment *)

Loggers == {"A", "B"}

\* w1: a sink whose write accepts anything; w2: a sink whose write throws;
\* r1: a byte source; c1: a console; u1: an object of no supported type
Sinks    == {"w1", "w2"}
Sources  == {"r1"}
Consoles == {"c1"}
\* c2: an object with a log method only; c3: a console whose methods throw
ConsoleLikes == {"c2", "c3"}
Others   == {"u1"}

Objs == Sinks \cup Sources \cup Consoles \cup ConsoleLikes \cup Others \cup Loggers

\* o.constructor.name
CtorName(o) ==
    CASE o \in Sinks    -> "Writable"
      [] o \in Sources  -> "Readable"
      [] o \in Consoles -> "Console"
      [] o \in Loggers  -> "Logger"
      [] OTHER          -> "Object"

\* o instanceof globalThis.console.constructor
InstanceOfConsole(o) == o \in Consoles

\* typeof o.write == 'function' and the call returns normally
WriteThrows(o) == o \notin Sinks \/ o = "w2"

\* the console methods the object has
ConsoleMethods(o) ==
    IF o \in Consoles \/ o = "c3" THEN {"log", "info", "warn", "error", "debug"}
    ELSE IF o = "c2" THEN {"log"}
    ELSE {}

\* io[method](data) throws
ConsoleThrows(o) == o = "c3"

\* An argument of attach/detach: the raw object, or an IO wrapper around it
Raw(o)        == [io |-> o, wrapped |-> FALSE, type |-> Undefined]
Wrapper(o, t) == [io |-> o, wrapped |-> TRUE,  type |-> t]

\* isIO(arg)
isIO(arg) == arg.wrapped

----------------------------------------------------------------------------
(* io.ts: the interfaces table *)

InterfaceNames ==
    {"Readable", "Writable", "ReadableStream", "WritableStream", "Console", "Logger"}

\* names that are not adapters but that any object literal inherits from
\* Object.prototype
ObjectPrototypeNames == {"constructor", "toString"}

\* type in interfaces: the in operator also finds inherited properties
InInterfaces(type) == type \in InterfaceNames \cup ObjectPrototypeNames

\* HasSend as it would be if every adapter provided send
HasSendAll(type) == type \in InterfaceNames

\* typeof interfaces[type].send == 'function'
HasSend(type) == type \in {"Writable", "WritableStream", "Console", "Logger"}

\* typeof interfaces[type].receive == 'function'
HasReceive(type) == type \in {"Readable", "ReadableStream", "Logger"}

----------------------------------------------------------------------------
(* utils: getTimeString and formatMessage *)

Pad2(n) == IF n < 10 THEN "0" \o ToString(n) ELSE ToString(n)

getTimeString(time) ==
    LET timeInSeconds == (time + 500) \div 1000
        seconds == timeInSeconds % 60
        minutes == (timeInSeconds % 3600) \div 60
        hours   == timeInSeconds \div 3600
    IN  Pad2(hours) \o ":" \o Pad2(minutes) \o ":" \o Pad2(seconds)

\* A format is the template cut at its $name tokens, as the regular
\* expression /\$([\w_]+)/g cuts it: a piece is literal text or a token.
Lit(s) == [var |-> FALSE, text |-> s]
Var(s) == [var |-> TRUE,  text |-> s]

DefaultFormat ==
    <<Lit("("), Var("time"), Lit(") ["), Var("prefix"), Var("level"), Lit("] "),
      Var("message")>>

DefaultPrefixDelimiter == "/"

\* the replacement of one piece of the template
Substitute(piece, message, time) ==
    IF ~piece.var THEN piece.text
    ELSE CASE piece.text = "time"    -> getTimeString(time)
           [] piece.text = "level"   -> LevelName(message.level)
           [] piece.text = "prefix"  ->
                  IF Truthy(message.prefix)
                  THEN message.prefix \o DefaultPrefixDelimiter ELSE ""
           [] piece.text = "message" -> JsString(message.contents)
           [] OTHER                  -> "$" \o piece.text

RECURSIVE Concat(_, _, _)
Concat(format, message, time) ==
    IF format = <<>> THEN ""
    ELSE Substitute(Head(format), message, time) \o Concat(Tail(format), message, time)

\* formatMessage(message, format), format undefined meaning the default
formatMessage(message, format, time) ==
    Concat(IF format = <<>> THEN DefaultFormat ELSE format, message, time)


----------------------------------------------------------------------------
(* logger.ts: the registry *)

\* An optional argument: absent, an array of levels, or a string
Absent     == [tag |-> "absent", list |-> <<>>, str |-> Undefined]
ListArg(s) == [tag |-> "list",   list |-> s,    str |-> Undefined]
StrArg(p)  == [tag |-> "string", list |-> <<>>, str |-> p]

\* NormInput as it would be if an absent level list meant no level at all
NormInputNoDefault(ins) == IF ins.tag = "list" THEN ins.list ELSE <<>>

\* inputLevels = inputLevels instanceof Array ? inputLevels : allLogLevels
NormInput(ins) == IF ins.tag = "list" THEN ins.list ELSE allLogLevels

\* outputLevels = outputLevels instanceof Array ? outputLevels : inputLevels
NormOutput(ins, outs) == IF outs.tag = "list" THEN outs.list ELSE NormInput(ins)

\* prefix = typeof outputLevels == 'string' ? outputLevels : prefix, evaluated
\* after outputLevels has been reassigned to an array
NormPrefix(ins, outs, prefix) ==
    LET outputLevels == ListArg(NormOutput(ins, outs))
    IN  IF outputLevels.tag = "string" THEN outputLevels.str ELSE prefix

\* TypeOf as it would be if the type a wrapper names were not looked at
TypeOfWrapped(arg) ==
    IF InstanceOfConsole(arg.io) THEN "Console" ELSE CtorName(arg.io)

\* the discriminant attach resolves for its argument
TypeOf(arg) ==
    IF arg.wrapped THEN arg.type
    ELSE IF InstanceOfConsole(arg.io) THEN "Console"
    ELSE CtorName(arg.io)

\* Find as it would be if only the most recently added record were compared
FindLastOnly(reg, o) ==
    IF reg # <<>> /\ reg[Len(reg)].io = o THEN Len(reg) ELSE 0

\* [...this.io.values()].find(({ io: existing }) => existing == io):
\* the position of the first record wrapping o, 0 when there is none
Find(reg, o) ==
    IF \E i \in DOMAIN reg : reg[i].io = o
    THEN CHOOSE i \in DOMAIN reg :
             reg[i].io = o /\ \A j \in 1..(i - 1) : reg[j].io # o
    ELSE 0

\* NewRecord as it would be if the default levels went to the input channel only
NewRecordInputOnly(o, type, prefix, inputLevels, outputLevels) ==
    [io     |-> o,
     type   |-> type,
     prefix |-> prefix,
     input  |-> [levels |-> Range(inputLevels), enabled |-> HasReceive(type)],
     output |-> [levels |-> {},                 enabled |-> HasSend(type)]]

\* the record attach adds for a new object
NewRecord(o, type, prefix, inputLevels, outputLevels) ==
    [io     |-> o,
     type   |-> type,
     prefix |-> prefix,
     input  |-> [levels |-> Range(inputLevels),  enabled |-> HasReceive(type)],
     output |-> [levels |-> Range(outputLevels), enabled |-> HasSend(type)]]

\* An IO wrapper as its interface declares it, carrying level sets and
\* enabled flags of its own beside io and type
FullWrapper(o, t, levels, inEnabled, outEnabled) ==
    [io      |-> o,
     wrapped |-> TRUE,
     type    |-> t,
     input   |-> [levels |-> levels, enabled |-> inEnabled],
     output  |-> [levels |-> levels, enabled |-> outEnabled]]

\* the merge attach performs on an existing record
MergeRecord(rec, prefix, inputLevels, outputLevels) ==
    [rec EXCEPT !.input.levels  = @ \cup Range(inputLevels),
                !.output.levels = @ \cup Range(outputLevels),
                !.prefix        = IF Truthy(prefix) THEN prefix ELSE @]

\* attach as it would be if the type were checked only for a new object
attachLateCheck(reg, arg, ins, outs, pfx) ==
    LET inputLevels  == NormInput(ins)
        outputLevels == NormOutput(ins, outs)
        prefix       == NormPrefix(ins, outs, pfx)
        o            == arg.io
        type         == TypeOf(arg)
        k            == Find(reg, o)
    IN  IF k # 0
        THEN [reg   |-> [reg EXCEPT
                            ![k] = MergeRecord(@, prefix, inputLevels, outputLevels)],
              threw |-> "none"]
        ELSE IF ~InInterfaces(type)
        THEN [reg |-> reg, threw |-> "TypeError"]
        ELSE [reg   |-> Append(reg, NewRecord(o, type, prefix, inputLevels, outputLevels)),
              threw |-> "none"]

\* attach as it would be if a repeated attach moved the record to the end
attachMovingToEnd(reg, arg, ins, outs, pfx) ==
    LET inputLevels  == NormInput(ins)
        outputLevels == NormOutput(ins, outs)
        prefix       == NormPrefix(ins, outs, pfx)
        o            == arg.io
        type         == TypeOf(arg)
        k            == Find(reg, o)
    IN  IF ~InInterfaces(type)
        THEN [reg |-> reg, threw |-> "TypeError"]
        ELSE IF k # 0
        THEN [reg   |-> [i \in 1..Len(reg) |->
                            IF i < k THEN reg[i]
                            ELSE IF i < Len(reg) THEN reg[i + 1]
                            ELSE MergeRecord(reg[k], prefix, inputLevels, outputLevels)],
              threw |-> "none"]
        ELSE [reg   |-> Append(reg, NewRecord(o, type, prefix, inputLevels, outputLevels)),
              threw |-> "none"]

\* attach as it would be if a repeated attach took over the type the call
\* names and the enabled flags that go with it
attachRetyping(reg, arg, ins, outs, pfx) ==
    LET inputLevels  == NormInput(ins)
        outputLevels == NormOutput(ins, outs)
        prefix       == NormPrefix(ins, outs, pfx)
        o            == arg.io
        type         == TypeOf(arg)
        k            == Find(reg, o)
    IN  IF ~InInterfaces(type)
        THEN [reg |-> reg, threw |-> "TypeError"]
        ELSE IF k # 0
        THEN [reg   |-> [reg EXCEPT
                            ![k] = [MergeRecord(@, prefix, inputLevels, outputLevels)
                                       EXCEPT !.type = type,
                                              !.input.enabled = HasReceive(type),
                                              !.output.enabled = HasSend(type)]],
              threw |-> "none"]
        ELSE [reg   |-> Append(reg, NewRecord(o, type, prefix, inputLevels, outputLevels)),
              threw |-> "none"]

\* Logger.attach on registry reg: the registry afterwards and what was thrown
attach(reg, arg, ins, outs, pfx) ==
    LET inputLevels  == NormInput(ins)
        outputLevels == NormOutput(ins, outs)
        prefix       == NormPrefix(ins, outs, pfx)
        o            == arg.io
        type         == TypeOf(arg)
        k            == Find(reg, o)
    IN  IF ~InInterfaces(type)
        THEN [reg |-> reg, threw |-> "TypeError"]
        ELSE IF k # 0
        THEN [reg   |-> [reg EXCEPT
                            ![k] = MergeRecord(@, prefix, inputLevels, outputLevels)],
              threw |-> "none"]
        ELSE [reg   |-> Append(reg, NewRecord(o, type, prefix, inputLevels, outputLevels)),
              threw |-> "none"]

\* the levels detach leaves on a record
StripRecord(rec, inputLevels, outputLevels) ==
    [rec EXCEPT !.input.levels  = @ \ Range(inputLevels),
                !.output.levels = @ \ Range(outputLevels)]

\* if (io.input.levels.size > 0 || io.input.levels.size > 0) return;
KeepsRecord(rec) ==
    Cardinality(rec.input.levels) > 0 \/ Cardinality(rec.input.levels) > 0

\* this.io.delete(io)
Remove(reg, k) == [i \in 1..(Len(reg) - 1) |-> IF i < k THEN reg[i] ELSE reg[i + 1]]

\* detach as it would be if an unknown object were ignored instead of refused
detachSilent(reg, arg, ins, outs) ==
    LET inputLevels  == NormInput(ins)
        outputLevels == NormOutput(ins, outs)
        k            == Find(reg, arg.io)
    IN  IF k = 0
        THEN [reg |-> reg, threw |-> "none"]
        ELSE LET rec == StripRecord(reg[k], inputLevels, outputLevels)
             IN  IF KeepsRecord(rec)
                 THEN [reg |-> [reg EXCEPT ![k] = rec], threw |-> "none"]
                 ELSE [reg |-> Remove(reg, k), threw |-> "none"]

\* Logger.detach on registry reg
detach(reg, arg, ins, outs) ==
    LET inputLevels  == NormInput(ins)
        outputLevels == NormOutput(ins, outs)
        k            == Find(reg, arg.io)
    IN  IF k = 0
        THEN [reg |-> reg, threw |-> "ReferenceError"]
        ELSE LET rec == StripRecord(reg[k], inputLevels, outputLevels)
             IN  IF KeepsRecord(rec)
                 THEN [reg |-> [reg EXCEPT ![k] = rec], threw |-> "none"]
                 ELSE [reg |-> Remove(reg, k), threw |-> "none"]

\* clearIO as it would be if it spared the oldest record
clearIOKeepFirst(reg) == IF reg = <<>> THEN <<>> ELSE <<reg[1]>>

\* Logger.clearIO
clearIO(reg) == <<>>

\* Logger.attachedIO
attachedIO(reg) == Len(reg)

----------------------------------------------------------------------------
(* Messages and effects *)

\* The first argument of send: a string, an IOMessage object, or undefined.
\* An IOMessage built by this version of the Logger has the properties
\* contents, level, prefix and computed; kind is the model's tag.
StringMsg(s) ==
    [level |-> LOG, prefix |-> Undefined, contents |-> s,
     kind |-> "string", computed |-> Undefined]
ObjectMsg(contents, level, prefix, computed) ==
    [level |-> level, prefix |-> prefix, contents |-> contents,
     kind |-> "object", computed |-> computed]
UndefinedMsg ==
    [level |-> LOG, prefix |-> Undefined, contents |-> Undefined,
     kind |-> "undefined", computed |-> Undefined]

\* m[name] of a message object: undefined when m has no such property
Property(m, name) == IF name \in DOMAIN m THEN m[name] ELSE Undefined

\* a string-or-undefined value passed as the first argument of send
AsMessage(v) == IF v = Undefined THEN UndefinedMsg ELSE StringMsg(v)

\* One observable step of an operation
Effect(kind, l, o, name, data, level, ok) ==
    [level |-> level, kind |-> kind, name |-> name, data |-> data, ok |-> ok,
     logger |-> l, obj |-> o]

\* The world an operation runs in: the registries (io), the retained entries,
\* the effects so far (fx) and the reading of performance.now() (now)
Do(w, e) == [w EXCEPT !.fx = Append(@, e)]

----------------------------------------------------------------------------
(* io.ts: the adapters' send, and logger.ts: Logger.send *)

\* the bound on the depth of nested sends (the JS call stack)
MaxDepth == 3

RECURSIVE LoggerSend(_, _, _, _, _)
RECURSIVE InterfaceSend(_, _, _, _, _, _)
RECURSIVE Dispatch(_, _, _, _, _, _)

\* interfaces.Writable.send / interfaces.WritableStream.send:
\* send(io, { data }) { try { io.write(data); return true } catch { return false } }
WritableSend(w, l, o, m) ==
    LET data == Property(m, "data")
    IN  IF o \in Sinks
        THEN [ok |-> ~WriteThrows(o),
              w  |-> Do(w, Effect("write", l, o, "write", data, m.level, ~WriteThrows(o)))]
        ELSE [ok |-> FALSE, w |-> w]

\* interfaces.Console.send
ConsoleSend(w, l, o, m) ==
    LET data   == Property(m, "data")
        method == LowerLevelName(m.level)
    IN  IF method \in ConsoleMethods(o)
        THEN [ok |-> ~ConsoleThrows(o),
              w  |-> Do(w, Effect("call", l, o, method, data, m.level,
                                  ~ConsoleThrows(o)))]
        ELSE [ok |-> TRUE, w |-> w]

\* interfaces[type].send(io, message), called by logger l
InterfaceSend(w, l, type, o, m, depth) ==
    CASE type \in {"Writable", "WritableStream"} -> WritableSend(w, l, o, m)
      [] type = "Console" -> ConsoleSend(w, l, o, m)
      [] type = "Logger" ->
            \* send(io, { data, level }) { try { io.send(data, level, true); ... } }
            IF o \in Loggers
            THEN LET r == LoggerSend(w, o, AsMessage(Property(m, "data")),
                                     m.level, depth + 1)
                 IN  [ok |-> r.threw = "none", w |-> r.w]
            ELSE [ok |-> FALSE, w |-> w]

\* does send dispatch to this record?
\* if (!output.enabled || !output.levels.has(level)) continue;
Matches(rec, level) == rec.output.enabled /\ level \in rec.output.levels

\* Dispatch as it would be if a record the message does not match were an error
DispatchStrict(w, l, m, level, i, depth) ==
    IF i > Len(w.io[l]) THEN [threw |-> "none", w |-> w]
    ELSE LET rec == w.io[l][i]
         IN  IF ~Matches(rec, level) \/ ~InInterfaces(rec.type) \/ ~HasSend(rec.type)
             THEN [threw |-> "TypeError", w |-> w]
             ELSE LET w1 == Do(w, Effect("adapter", l, rec.io, rec.type,
                                         Undefined, level, TRUE))
                      r  == InterfaceSend(w1, l, rec.type, rec.io,
                                          [m EXCEPT !.prefix = rec.prefix], depth)
                      w2 == Do(r.w, Effect("result", l, rec.io, rec.type,
                                           Undefined, level, r.ok))
                  IN  Dispatch(w2, l, m, level, i + 1, depth)

\* for (const { io, output, type, prefix } of this.io) { ... }, from position i
Dispatch(w, l, m, level, i, depth) ==
    IF i > Len(w.io[l]) THEN [threw |-> "none", w |-> w]
    ELSE LET rec == w.io[l][i]
         IN  IF ~Matches(rec, level)
             THEN Dispatch(w, l, m, level, i + 1, depth)
             \* throw new TypeError('Invalid I/O type: ' + type), or the
             \* TypeError of calling interfaces[type].send when it is undefined
             ELSE IF ~InInterfaces(rec.type) \/ ~HasSend(rec.type)
             THEN [threw |-> "TypeError", w |-> w]
             ELSE LET w1 == Do(w, Effect("adapter", l, rec.io, rec.type,
                                         Undefined, level, TRUE))
                      r  == InterfaceSend(w1, l, rec.type, rec.io,
                                          [m EXCEPT !.prefix = rec.prefix], depth)
                      w2 == Do(r.w, Effect("result", l, rec.io, rec.type,
                                           Undefined, level, r.ok))
                  IN  Dispatch(w2, l, m, level, i + 1, depth)

\* the handlers that receive calls have subscribed on object o are invoked
\* with a unit of data, in the order they were subscribed
Heard(w, o, name, data, level) ==
    [w EXCEPT !.fx = @ \o [i \in 1..listeners[o] |->
                              Effect("handler", Undefined, o, name, data, level, TRUE)]]

\* LoggerSend as it would be if the observers were notified before the fan-out
LoggerSendNotifyFirst(w, l, message, level, depth) ==
    IF depth > MaxDepth THEN [threw |-> "RangeError", w |-> w]
    ELSE IF message.kind = "undefined" THEN [threw |-> "TypeError", w |-> w]
    ELSE
    LET m0 == IF message.kind = "string"
              THEN ObjectMsg(message.contents, level, options[l].prefix, Undefined)
              ELSE message
        m  == [m0 EXCEPT !.computed =
                  IF Truthy(@) THEN @ ELSE formatMessage(m0, options[l].format, w.now)]
        w1 == IF options[l].retainLogs
              THEN Do([w EXCEPT !.entries[l] = Append(@, m.computed)],
                      Effect("retain", l, Undefined, "push", m.computed, level, TRUE))
              ELSE w
        w2 == Do(Do(w1,
                    Effect("emit", l, Undefined, "send", m.computed, m.level, TRUE)),
                    Effect("emit", l, Undefined, "entry", m.computed, level, TRUE))
    IN  Dispatch(w2, l, m, level, 1, depth)

\* Logger.send(message, level = LogLevel.LOG) of logger l
LoggerSend(w, l, message, level, depth) ==
    IF depth > MaxDepth THEN [threw |-> "RangeError", w |-> w]
    ELSE IF message.kind = "undefined" THEN [threw |-> "TypeError", w |-> w]
    ELSE
    LET m0 == IF message.kind = "string"
              THEN ObjectMsg(message.contents, level, options[l].prefix, Undefined)
              ELSE message
        \* message.computed ||= formatMessage(message, format, formatOptions)
        m  == [m0 EXCEPT !.computed =
                  IF Truthy(@) THEN @ ELSE formatMessage(m0, options[l].format, w.now)]
        w1 == IF options[l].retainLogs
              THEN Do([w EXCEPT !.entries[l] = Append(@, m.computed)],
                      Effect("retain", l, Undefined, "push", m.computed, level, TRUE))
              ELSE w
        r  == Dispatch(w1, l, m, level, 1, depth)
    IN  IF r.threw # "none" THEN r
        ELSE [threw |-> "none",
              w |-> Heard(Do(Do(r.w,
                          Effect("emit", l, Undefined, "send", m.computed, m.level, TRUE)),
                          Effect("emit", l, Undefined, "entry", m.computed, level, TRUE)),
                          l, "entry", m.computed, level)]

\* clear as it would be if it ignored the options
clearAlways(l, ents) == [entries |-> <<>>, returned |-> TRUE]

\* clear as it would be if it dropped only the most recent entry
clearLast(l, ents) ==
    IF ~options[l].retainLogs \/ ~options[l].allowClearing
    THEN [entries |-> ents, returned |-> FALSE]
    ELSE [entries |-> SubSeq(ents, 1, Len(ents) - 1), returned |-> TRUE]

\* Logger.clear
clear(l, ents) ==
    IF ~options[l].retainLogs \/ ~options[l].allowClearing
    THEN [entries |-> ents, returned |-> FALSE]
    ELSE [entries |-> <<>>, returned |-> TRUE]

\* Array.prototype.join('\n')
RECURSIVE Join(_)
Join(ents) ==
    IF ents = <<>> THEN ""
    ELSE IF Len(ents) = 1 THEN ents[1]
    ELSE ents[1] \o "\n" \o Join(Tail(ents))

\* Logger.toString: this.entries.join('\n')
toString(ents) == Join(ents)

----------------------------------------------------------------------------
(* The state after construction *)

\* new Logger({ attachGlobalConsole, retainLogs, allowClearing, format, prefix })
Options(attachGlobalConsole, retainLogs, allowClearing, format, prefix) ==
    [prefix |-> prefix, format |-> format, retainLogs |-> retainLogs,
     allowClearing |-> allowClearing, attachGlobalConsole |-> attachGlobalConsole]

\* Constructed as it would be if the constructor never attached the console
ConstructedBare(opts) == <<>>

\* the registry the constructor leaves
Constructed(opts) ==
    IF opts.attachGlobalConsole
    THEN attach(<<>>, Raw("c1"), Absent, Absent, Undefined).reg
    ELSE <<>>

NoHist == [input |-> {}, output |-> {}, tracked |-> FALSE]

NoOp ==
    [level |-> LOG, arg |-> Raw("A"), ins |-> Absent, outs |-> Absent, pfx |-> Undefined,
     threw |-> "none", logger |-> "A", returned |-> TRUE, op |-> "new",
     msg |-> UndefinedMsg]

\* the entries getter as it would be if it handed out the logger's own array
entriesGetterSameArray(ents) == [items |-> ents, shared |-> TRUE]

\* get entries(): this._entries.slice(0), a new array with the same items;
\* shared tells whether the array returned is the logger's own
entriesGetter(ents) == [items |-> ents, shared |-> FALSE]

\* no array has been got yet
NoSnapshot == [logger |-> "A", items |-> <<>>, shared |-> FALSE, taken |-> FALSE]

\* this._entries.push(...) grows the logger's array in place: an array got
\* earlier shows the new items if and only if it is that same array
AfterPush(s, ents) ==
    IF s.taken /\ s.shared THEN [s EXCEPT !.items = ents[s.logger]] ELSE s

\* this._entries = [] gives logger l a new array: one got earlier keeps its items
AfterAssign(s, l, cleared) ==
    IF cleared /\ s.logger = l THEN [s EXCEPT !.shared = FALSE] ELSE s

\* web streams (ReadableStream objects) and the loop of one receive call on
\* each: whether it runs, the chunks it has added to data, whether it ended
Streams == {"s1"}
NotReading == [active |-> FALSE, chunks |-> <<>>, ended |-> FALSE]

InitWith(optsA, optsB) ==
    /\ options = [l \in Loggers |-> IF l = "A" THEN optsA ELSE optsB]
    /\ io = [l \in Loggers |-> Constructed(options[l])]
    /\ entries = [l \in Loggers |-> <<>>]
    /\ clock = 0
    /\ effects = <<>>
    /\ last = NoOp
    /\ listeners = [o \in Objs |-> 0]
    /\ hist = [l \in Loggers |-> [o \in Objs |-> NoHist]]
    /\ snap = NoSnapshot
    /\ reading = [s \in Streams |-> NotReading]
    /\ held = UndefinedMsg

----------------------------------------------------------------------------
(* The operations *)

\* the bound on the retained entries of a logger
MaxEntries == 2
MaxHandlers == 2
MaxChunks == 2

\* the levels attach has given for o since its record was created
HistAfterAttach(h, reg, arg, ins, outs) ==
    LET given == [input |-> Range(NormInput(ins)), output |-> Range(NormOutput(ins, outs)),
                  tracked |-> TRUE]
    IN  IF \A i \in DOMAIN reg : reg[i].io # arg.io THEN given
        ELSE IF h.tracked
        THEN [h EXCEPT !.input = @ \cup given.input, !.output = @ \cup given.output]
        ELSE h

\* logger.attach(arg, ins, outs, pfx)
Attach(l, arg, ins, outs, pfx) ==
    LET r == attach(io[l], arg, ins, outs, pfx)
    IN  /\ io' = [io EXCEPT ![l] = r.reg]
        /\ hist' = IF r.threw = "none"
                   THEN [hist EXCEPT ![l][arg.io] =
                            HistAfterAttach(@, io[l], arg, ins, outs)]
                   ELSE hist
        /\ last' = [NoOp EXCEPT !.op = "attach", !.logger = l, !.arg = arg,
                                !.ins = ins, !.outs = outs, !.pfx = pfx,
                                !.threw = r.threw]
        /\ effects' = <<>>
        /\ UNCHANGED <<entries, options, clock, listeners, snap, reading, held>>

\* logger.detach(arg, ins, outs)
Detach(l, arg, ins, outs) ==
    LET r == detach(io[l], arg, ins, outs)
    IN  /\ io' = [io EXCEPT ![l] = r.reg]
        /\ hist' = IF r.threw = "none"
                   THEN [hist EXCEPT ![l][arg.io] = NoHist]
                   ELSE hist
        /\ last' = [NoOp EXCEPT !.op = "detach", !.logger = l, !.arg = arg,
                                !.ins = ins, !.outs = outs, !.threw = r.threw]
        /\ effects' = <<>>
        /\ UNCHANGED <<entries, options, clock, listeners, snap, reading, held>>

\* ClearIO as it would be if the loggers shared one registry
ClearIOShared(l) ==
    /\ io' = [k \in Loggers |-> clearIO(io[k])]
    /\ hist' = [k \in Loggers |-> [o \in Objs |-> NoHist]]
    /\ last' = [NoOp EXCEPT !.op = "clearIO", !.logger = l]
    /\ effects' = <<>>
    /\ UNCHANGED <<entries, options, clock, listeners, snap, reading, held>>

\* logger.clearIO()
ClearIO(l) ==
    /\ io' = [io EXCEPT ![l] = clearIO(@)]
    /\ hist' = [hist EXCEPT ![l] = [o \in Objs |-> NoHist]]
    /\ last' = [NoOp EXCEPT !.op = "clearIO", !.logger = l]
    /\ effects' = <<>>
    /\ UNCHANGED <<entries, options, clock, listeners, snap, reading, held>>

\* a registry record of logger l whose type is overwritten from outside the
\* class (the registry is a protected field: a subclass, or untyped code,
\* reaches the records); attach itself never stores an unknown type
Corrupt(l, i) ==
    /\ i \in DOMAIN io[l]
    /\ io[l][i].type \in InterfaceNames
    /\ io' = [io EXCEPT ![l][i].type = "Bogus"]
    /\ last' = [NoOp EXCEPT !.op = "corrupt", !.logger = l]
    /\ effects' = <<>>
    /\ UNCHANGED <<entries, options, clock, listeners, hist, snap, reading, held>>

\* a top-level send of logger l, at time t
SendAt(l, message, level, t, op) ==
    /\ t >= clock
    /\ \A k \in Loggers : Len(entries[k]) < MaxEntries
    /\ clock' = t
    /\ LET r == LoggerSend([io |-> io, entries |-> entries, fx |-> <<>>, now |-> t],
                           l, message, level, 1)
       IN  /\ io' = r.w.io
           /\ entries' = r.w.entries
           /\ effects' = r.w.fx
           /\ last' = [NoOp EXCEPT !.op = op, !.logger = l, !.msg = message,
                                   !.level = level, !.threw = r.threw]
           /\ snap' = AfterPush(snap, r.w.entries)
    /\ UNCHANGED <<options, listeners, hist, reading, held>>

\* logger.send(contents, level)
Send(l, contents, level, t) == SendAt(l, StringMsg(contents), level, t, "send")

\* logger.send(message): the level parameter takes its default, LogLevel.LOG
SendMessage(l, message, t) == SendAt(l, message, LOG, t, "sendMessage")

\* const message = { contents, level }: the caller makes a message object
NewMessage(contents, level) ==
    /\ held' = ObjectMsg(contents, level, Undefined, Undefined)
    /\ last' = [NoOp EXCEPT !.op = "message"]
    /\ effects' = <<>>
    /\ UNCHANGED <<io, entries, options, clock, listeners, hist, snap, reading>>

\* logger.send(message) with the object the caller holds: the assignment
\* message.computed ||= formatMessage(...) is made on that object
SendHeld(l, t) ==
    /\ held.kind = "object"
    /\ t >= clock
    /\ \A k \in Loggers : Len(entries[k]) < MaxEntries
    /\ clock' = t
    /\ LET r == LoggerSend([io |-> io, entries |-> entries, fx |-> <<>>, now |-> t],
                           l, held, LOG, 1)
       IN  /\ io' = r.w.io
           /\ entries' = r.w.entries
           /\ effects' = r.w.fx
           /\ last' = [NoOp EXCEPT !.op = "sendMessage", !.logger = l, !.msg = held,
                                   !.threw = r.threw]
           /\ snap' = AfterPush(snap, r.w.entries)
    /\ held' = [held EXCEPT !.computed =
                    IF Truthy(@) THEN @ ELSE formatMessage(held, options[l].format, t)]
    /\ UNCHANGED <<options, listeners, hist, reading>>

\* the shortcut methods and their fixed levels
ShortcutNames == {"log", "info", "warn", "error", "debug"}

\* the shortcuts as they would be if every one of them sent at LogLevel.LOG
ShortcutLevelLog(name) == LOG

ShortcutLevel(name) ==
    CASE name = "log"   -> LOG
      [] name = "info"  -> INFO
      [] name = "warn"  -> WARN
      [] name = "error" -> ERROR
      [] name = "debug" -> DEBUG

\* Error objects a caller may hand to warn and error, and their messages
Errors == {"e1"}
ErrorMessage(e) == "boom"

\* data.toString(): Error.prototype.toString gives name + ": " + message,
\* a string is itself
DataToString(data) ==
    IF data \in Errors THEN "Error: " \o ErrorMessage(data) ELSE data

\* data instanceof Error ? data : new Error(data), as the identity of the
\* object returned and the message it carries
FreshError == "<new Error>"
ReturnedError(data) == IF data \in Errors THEN data ELSE FreshError
ReturnedMessage(data) == IF data \in Errors THEN ErrorMessage(data) ELSE data

\* logger.log(data), .info(data), .debug(data):
\*     this.send(data, level); this.emit(name, data)
\* logger.warn(data), .error(data):
\*     message = data.toString(); this.send(message, level);
\*     this.emit(name, message); return the Error
Shortcut(l, name, data, t) ==
    /\ t >= clock
    /\ \A k \in Loggers : Len(entries[k]) < MaxEntries
    /\ data \in Errors => name \in {"warn", "error"}
    /\ clock' = t
    /\ LET level == ShortcutLevel(name)
           message == IF name \in {"warn", "error"} THEN DataToString(data) ELSE data
           r == LoggerSend([io |-> io, entries |-> entries, fx |-> <<>>, now |-> t],
                           l, StringMsg(message), level, 1)
           e == IF r.threw = "none"
                THEN Do(r.w, Effect("emit", l, Undefined, name, message, level, TRUE))
                ELSE r.w
           w == IF r.threw = "none" /\ name \in {"warn", "error"}
                THEN Do(e, Effect("return", l, ReturnedError(data), name,
                                  ReturnedMessage(data), level, TRUE))
                ELSE e
       IN  /\ io' = w.io
           /\ entries' = w.entries
           /\ effects' = w.fx
           /\ last' = [NoOp EXCEPT !.op = name, !.logger = l, !.msg = StringMsg(message),
                                   !.level = level, !.threw = r.threw, !.arg = Raw(data)]
           /\ snap' = AfterPush(snap, w.entries)
    /\ UNCHANGED <<options, listeners, hist, reading, held>>

\* Clear as it would be if clearing the entries also emptied the registry
ClearWithRegistry(l) ==
    LET r == clear(l, entries[l])
    IN  /\ entries' = [entries EXCEPT ![l] = r.entries]
        /\ io' = [io EXCEPT ![l] = IF r.returned THEN <<>> ELSE @]
        /\ last' = [NoOp EXCEPT !.op = "clear", !.logger = l, !.returned = r.returned]
        /\ snap' = AfterAssign(snap, l, r.returned)
        /\ effects' = <<>>
        /\ UNCHANGED <<options, clock, listeners, hist, reading, held>>

\* logger.clear()
Clear(l) ==
    LET r == clear(l, entries[l])
    IN  /\ entries' = [entries EXCEPT ![l] = r.entries]
        /\ last' = [NoOp EXCEPT !.op = "clear", !.logger = l, !.returned = r.returned]
        /\ snap' = AfterAssign(snap, l, r.returned)
        /\ effects' = <<>>
        /\ UNCHANGED <<io, options, clock, listeners, hist, reading, held>>

\* const got = logger.entries
TakeSnapshot(l) ==
    /\ LET g == entriesGetter(entries[l])
       IN  snap' = [logger |-> l, items |-> g.items, shared |-> g.shared, taken |-> TRUE]
    /\ last' = [NoOp EXCEPT !.op = "entries", !.logger = l]
    /\ effects' = <<>>
    /\ UNCHANGED <<io, entries, options, clock, listeners, hist, reading, held>>

\* the caller changes the array it got: got.push(c), got.pop(), got[0] = c.
\* The logger's entries change with it exactly when it is the logger's array.
MutateSnapshot(how, c) ==
    /\ snap.taken
    /\ how = "push" => Len(snap.items) < MaxEntries
    /\ how \in {"pop", "assign"} => snap.items # <<>>
    /\ LET items == CASE how = "push"   -> Append(snap.items, c)
                      [] how = "pop"    -> SubSeq(snap.items, 1, Len(snap.items) - 1)
                      [] how = "assign" -> [snap.items EXCEPT ![1] = c]
       IN  /\ snap' = [snap EXCEPT !.items = items]
           /\ entries' = IF snap.shared
                         THEN [entries EXCEPT ![snap.logger] = items]
                         ELSE entries
    /\ last' = [NoOp EXCEPT !.op = "mutate", !.logger = snap.logger]
    /\ effects' = <<>>
    /\ UNCHANGED <<io, options, clock, listeners, hist, reading, held>>

\* Object o emits a unit of data ('data' of a stream, 'entry' of a logger):
\* every handler subscribed on o is invoked with it.
EmitData(o) ==
    /\ effects' = [i \in 1..listeners[o] |->
                      Effect("handler", Undefined, o, "data", Undefined, LOG, TRUE)]
    /\ last' = [NoOp EXCEPT !.op = "data", !.arg = Raw(o)]
    /\ UNCHANGED <<io, entries, options, clock, listeners, hist, snap, reading, held>>

\* data.toString().trim() of the chunks a source emits
Chunks == {"a", " b\n"}
Trim(c) == CASE c = " b\n" -> "b" [] OTHER -> c

\* data += chunk over the chunks read, from data = ''
RECURSIVE Accumulated(_)
Accumulated(chunks) ==
    IF chunks = <<>> THEN ""
    ELSE Accumulated(SubSeq(chunks, 1, Len(chunks) - 1)) \o chunks[Len(chunks)]

\* interfaces[type].receive(o, handler): Readable subscribes a 'data'
\* listener, Logger an 'entry' listener, ReadableStream starts reading
Receive(type, o) ==
    /\ HasReceive(type)
    /\ IF type = "ReadableStream"
       THEN /\ o \in Streams
            /\ ~reading[o].active /\ ~reading[o].ended
            /\ reading' = [reading EXCEPT ![o].active = TRUE]
            /\ UNCHANGED listeners
       ELSE /\ o \in Objs
            /\ listeners[o] < MaxHandlers
            /\ listeners' = [listeners EXCEPT ![o] = @ + 1]
            /\ UNCHANGED reading
    /\ last' = [NoOp EXCEPT !.op = "receive", !.arg = Wrapper(o, type)]
    /\ effects' = <<>>
    /\ UNCHANGED <<io, entries, options, clock, hist, snap, held>>

\* the byte stream o emits 'data' with chunk c: each listener of
\* Readable.receive calls its handler with data.toString().trim()
Data(o, c) ==
    /\ effects' = Heard([fx |-> <<>>], o, "data", Trim(c), LOG).fx
    /\ last' = [NoOp EXCEPT !.op = "data", !.arg = Raw(o), !.msg = StringMsg(c)]
    /\ UNCHANGED <<io, entries, options, clock, listeners, hist, snap, reading, held>>

\* the web stream s yields chunk c: the loop of ReadableStream.receive adds
\* it to data and goes on waiting; no handler is called
Chunk(s, c) ==
    /\ ~reading[s].ended
    /\ Len(reading[s].chunks) < MaxChunks
    /\ reading' = [reading EXCEPT ![s].chunks = Append(@, c)]
    /\ effects' = <<>>
    /\ last' = [NoOp EXCEPT !.op = "chunk", !.arg = Raw(s), !.msg = StringMsg(c)]
    /\ UNCHANGED <<io, entries, options, clock, listeners, hist, snap, held>>

\* the web stream s closes: the loop ends and the handler is called, once,
\* with everything the stream yielded
End(s) ==
    /\ ~reading[s].ended
    /\ reading' = [reading EXCEPT ![s].ended = TRUE]
    /\ effects' = IF reading[s].active
                  THEN <<Effect("handler", Undefined, s, "data",
                                Accumulated(reading[s].chunks), LOG, TRUE)>>
                  ELSE <<>>
    /\ last' = [NoOp EXCEPT !.op = "end", !.arg = Raw(s)]
    /\ UNCHANGED <<io, entries, options, clock, listeners, hist, snap, held>>

----------------------------------------------------------------------------
(* The specification: one logger, A, constructed as the repository's tests  *)
(* construct it (no global console, retaining).  The sink w1 is attached    *)
(* and detached with every combination of level arguments, raw and through  *)
(* an IO wrapper; the sink w2 and the unsupported object u1 beside it.      *)

L(v) == ListArg(<<v>>)

\* the calls of attach and of detach: <<argument, inputLevels, outputLevels>>
AttachCalls ==
    {<<Raw("w1"), ins, outs>> :
        ins \in {Absent, L(LOG), L(INFO)}, outs \in {Absent, L(LOG), L(INFO)}}
    \cup {<<Wrapper("w1", "Writable"), Absent, Absent>>,
          <<Raw("w2"), Absent, Absent>>,
          <<Raw("u1"), Absent, Absent>>,
          <<Wrapper("w2", "File"), L(LOG), Absent>>}

DetachCalls ==
    {<<Raw("w1"), ins, outs>> :
        ins \in {Absent, L(LOG), L(INFO)}, outs \in {Absent, L(LOG), L(INFO)}}
    \cup {<<Wrapper("w1", "Writable"), Absent, Absent>>,
          <<Raw("w2"), Absent, Absent>>,
          <<Raw("w2"), L(LOG), L(INFO)>>,
          <<Raw("u1"), Absent, Absent>>}

SendLevels == {LOG, INFO}
Contents   == {"x"}
Times      == {1000}
TestOptions == Options(FALSE, TRUE, TRUE, <<>>, Undefined)

Init == InitWith(TestOptions, TestOptions)

Next ==
    \/ \E c \in AttachCalls : Attach("A", c[1], c[2], c[3], Undefined)
    \/ \E c \in DetachCalls : Detach("A", c[1], c[2], c[3])
    \/ ClearIO("A")
    \/ \E c \in Contents, v \in SendLevels, t \in Times : Send("A", c, v, t)
    \/ Clear("A")

Spec == Init /\ [][Next]_vars

----------------------------------------------------------------------------
(* The dispatch specification: logger A with the sinks w1 (accepting) and   *)
(* w2 (throwing) and the source r1, attached for single levels in either    *)
(* order, and sends of both forms at every level the sinks are attached for *)
(* and at one they are not.                                                 *)

DispatchAttachCalls ==
    {<<Raw(o), L(v), Absent>> : o \in {"w1", "w2"}, v \in {LOG, INFO}}
    \cup {<<Raw("r1"), Absent, Absent>>}

DispatchDetachCalls == {<<Raw(o), Absent, Absent>> : o \in {"w1", "w2", "r1"}}

DispatchLevels == {LOG, INFO, ERROR}

DispatchMessages ==
    {ObjectMsg(c, v, p, Undefined) :
        c \in Contents, v \in DispatchLevels, p \in {Undefined, "NET"}}

NextDispatch ==
    \/ \E c \in DispatchAttachCalls : Attach("A", c[1], c[2], c[3], Undefined)
    \/ \E c \in DispatchDetachCalls : Detach("A", c[1], c[2], c[3])
    \/ \E c \in Contents, v \in DispatchLevels, t \in Times : Send("A", c, v, t)
    \/ \E m \in DispatchMessages, t \in Times : SendMessage("A", m, t)
    \/ Clear("A")

SpecDispatch == Init /\ [][NextDispatch]_vars

----------------------------------------------------------------------------
(* The chain specification: loggers A and B, both retaining; A is           *)
(* constructed with a prefix, B without.  B and the source r1 can be        *)
(* attached to A, the sink w1 to B; both loggers send, and r1 emits data.   *)

ChainOptionsA == Options(FALSE, TRUE, TRUE, <<>>, "NET")
ChainOptionsB == Options(FALSE, TRUE, TRUE, <<>>, Undefined)

InitChain == InitWith(ChainOptionsA, ChainOptionsB)

ChainAttachCalls ==
    {<<"A", Raw("B"), Absent, Absent>>, <<"A", Raw("B"), L(LOG), Absent>>,
     <<"A", Raw("r1"), Absent, Absent>>, <<"B", Raw("w1"), Absent, Absent>>,
     <<"A", Wrapper("r1", "ReadableStream"), L(LOG), Absent>>}

ChainDetachCalls ==
    {<<"A", Raw("B"), Absent, Absent>>, <<"A", Raw("r1"), Absent, Absent>>,
     <<"B", Raw("w1"), Absent, Absent>>}

NextChain ==
    \/ \E c \in ChainAttachCalls : Attach(c[1], c[2], c[3], c[4], Undefined)
    \/ \E c \in ChainDetachCalls : Detach(c[1], c[2], c[3], c[4])
    \/ \E l \in Loggers, c \in Contents, v \in SendLevels, t \in Times :
           Send(l, c, v, t)
    \/ \E l \in Loggers : Clear(l)
    \/ \E o \in Sources : EmitData(o)

SpecChain == InitChain /\ [][NextChain]_vars

----------------------------------------------------------------------------
(* The retention specification: logger A constructed with every combination *)
(* of retainLogs and allowClearing, the sink w1 attached for LOG, for ERROR *)
(* or for every level, and sends of both forms and through the shortcuts.   *)

RetainOptions ==
    {Options(FALSE, r, a, <<>>, Undefined) : r \in BOOLEAN, a \in BOOLEAN}

InitRetain == \E o \in RetainOptions : InitWith(o, o)

RetainAttachCalls ==
    {<<Raw("w1"), Absent, Absent>>, <<Raw("w1"), L(LOG), Absent>>,
     <<Raw("w1"), L(ERROR), Absent>>}

RetainLevels == {LOG, ERROR}

RetainMessages ==
    {ObjectMsg("x", INFO, Undefined, Undefined),
     ObjectMsg("x", ERROR, "NET", Undefined),
     ObjectMsg("x", LOG, Undefined, "ready")}

RetainShortcuts == ShortcutNames

NextRetain ==
    \/ \E c \in RetainAttachCalls : Attach("A", c[1], c[2], c[3], Undefined)
    \/ Detach("A", Raw("w1"), Absent, Absent)
    \/ \E c \in Contents, v \in RetainLevels, t \in Times : Send("A", c, v, t)
    \/ \E m \in RetainMessages, t \in Times : SendMessage("A", m, t)
    \/ \E n \in RetainShortcuts, c \in Contents \cup Errors, t \in Times : Shortcut("A", n, c, t)
    \/ Clear("A")

SpecRetain == InitRetain /\ [][NextRetain]_vars

----------------------------------------------------------------------------
(* The prefix specification: the sink w1 is attached to logger A in the     *)
(* three-argument form attach(obj, levels, prefix), in the four-argument    *)
(* form attach(obj, inputLevels, outputLevels, prefix) and without a        *)
(* prefix, detached, and sent to.                                           *)

\* the calls of attach: <<argument, inputLevels, outputLevels, prefix>>
PrefixAttachCalls ==
    {<<Raw("w1"), L(LOG), StrArg("P"), Undefined>>,
     <<Raw("w1"), L(INFO), StrArg("Q"), Undefined>>,
     <<Raw("w1"), L(LOG), L(LOG), "P">>,
     <<Raw("w1"), L(INFO), L(INFO), "Q">>,
     <<Raw("w1"), L(INFO), Absent, Undefined>>,
     <<Raw("w1"), Absent, Absent, Undefined>>}

NextPrefix ==
    \/ \E c \in PrefixAttachCalls : Attach("A", c[1], c[2], c[3], c[4])
    \/ Detach("A", Raw("w1"), Absent, Absent)
    \/ \E c \in Contents, v \in SendLevels, t \in Times : Send("A", c, v, t)
    \/ Clear("A")

SpecPrefix == Init /\ [][NextPrefix]_vars

----------------------------------------------------------------------------
(* The pair specification: loggers A and B can each attach the other and    *)
(* the sink w1, raw or through one IO wrapper, detach them and clear their  *)
(* registry; both send.                                                     *)

\* the calls of attach and of detach: <<logger, argument, inputLevels, outputLevels>>
PairAttachCalls ==
    {<<"A", Raw("B"), Absent, Absent>>, <<"B", Raw("A"), Absent, Absent>>}
    \cup {<<l, Raw("w1"), L(LOG), Absent>> : l \in Loggers}
    \cup {<<l, Wrapper("w1", "Writable"), L(INFO), Absent>> : l \in Loggers}

PairDetachCalls ==
    {<<"A", Raw("B"), Absent, Absent>>, <<"B", Raw("A"), Absent, Absent>>}
    \cup {<<l, Raw("w1"), L(LOG), Absent>> : l \in Loggers}
    \cup {<<l, Wrapper("w1", "Writable"), Absent, Absent>> : l \in Loggers}

NextPair ==
    \/ \E c \in PairAttachCalls : Attach(c[1], c[2], c[3], c[4], Undefined)
    \/ \E c \in PairDetachCalls : Detach(c[1], c[2], c[3], c[4])
    \/ \E l \in Loggers : ClearIO(l)
    \/ \E l \in Loggers, c \in Contents, t \in Times : Send(l, c, LOG, t)

SpecPair == Init /\ [][NextPair]_vars

----------------------------------------------------------------------------
(* The console specification: logger A is constructed with or without the   *)
(* global console c1; the console-like objects c2 (a log method only) and   *)
(* c3 (throwing methods) are attached through IO wrappers naming the type   *)
(* Console; sends at every level.                                           *)

ConsoleOptions ==
    {Options(g, TRUE, TRUE, <<>>, Undefined) : g \in BOOLEAN}

InitConsole == \E o \in ConsoleOptions : InitWith(o, o)

ConsoleAttachCalls ==
    {<<Raw("c1"), Absent, Absent>>,
     <<Wrapper("c2", "Console"), Absent, Absent>>,
     <<Wrapper("c3", "Console"), Absent, Absent>>}

NextConsole ==
    \/ \E c \in ConsoleAttachCalls : Attach("A", c[1], c[2], c[3], Undefined)
    \/ \E c \in ConsoleAttachCalls : Detach("A", c[1], c[2], c[3])
    \/ \E c \in Contents, v \in Levels, t \in Times : Send("A", c, v, t)
    \/ Clear("A")

SpecConsole == InitConsole /\ [][NextConsole]_vars

-----------------------------------------------------------------------------
(* The corruption specification: logger A fans out to the sink w1 and to     *)
(* logger B, logger B to the sink w1; the type of a registry record may be   *)
(* overwritten; sends at LOG and ERROR on A, at LOG on B.                    *)

CorruptAttachCalls ==
    {<<"A", Raw("B"), Absent, Absent>>}
    \cup {<<l, Raw("w1"), L(v), Absent>> : l \in Loggers, v \in {LOG, ERROR}}

CorruptLevels == {LOG, ERROR}

NextCorrupt ==
    \/ \E c \in CorruptAttachCalls : Attach(c[1], c[2], c[3], c[4], Undefined)
    \/ \E l \in Loggers : ClearIO(l)
    \/ \E l \in Loggers, i \in 1..2 : Corrupt(l, i)
    \/ \E c \in Contents, v \in CorruptLevels, t \in Times : Send("A", c, v, t)
    \/ \E c \in Contents, t \in Times : Send("B", c, LOG, t)

SpecCorrupt == Init /\ [][NextCorrupt]_vars

-----------------------------------------------------------------------------
(* The snapshot specification: a caller gets logger A's entries array and    *)
(* changes it, while A goes on sending (at LOG and ERROR) and clearing.      *)

SnapshotChanges == {"push", "pop", "assign"}
SnapshotItems   == {"junk"}

NextSnapshot ==
    \/ TakeSnapshot("A")
    \/ \E how \in SnapshotChanges, c \in SnapshotItems : MutateSnapshot(how, c)
    \/ \E c \in Contents, v \in {LOG, ERROR}, t \in Times : Send("A", c, v, t)
    \/ \E n \in {"info"}, c \in Contents, t \in Times : Shortcut("A", n, c, t)
    \/ Clear("A")

SpecSnapshot == Init /\ [][NextSnapshot]_vars

-----------------------------------------------------------------------------
(* The receive specification: the receive functions of the adapter table are *)
(* called on the byte stream r1, the web stream s1 and logger A; r1 emits    *)
(* data, s1 yields chunks and closes, A sends.                               *)

ReceiveCalls ==
    {<<"Readable", "r1">>, <<"ReadableStream", "s1">>, <<"Logger", "A">>}

NextReceive ==
    \/ \E c \in ReceiveCalls : Receive(c[1], c[2])
    \/ \E c \in Chunks : Data("r1", c)
    \/ \E c \in Chunks : Chunk("s1", c)
    \/ End("s1")
    \/ \E c \in Contents, t \in Times : Send("A", c, LOG, t)

SpecReceive == Init /\ [][NextReceive]_vars

-----------------------------------------------------------------------------
(* The wrapper specification: logger A; the sink w1 is attached and detached *)
(* raw and through IO wrappers that name its own type or another one and     *)
(* carry levels and flags of their own; the source r1 through a wrapper; w2  *)
(* through wrappers naming no adapter; every public operation of the logger. *)

WrapAttachCalls ==
    {<<Raw("w1"), Absent, Absent>>,
     <<Raw("w1"), L(LOG), Absent>>,
     <<Wrapper("w1", "Writable"), L(INFO), Absent>>,
     <<FullWrapper("w1", "Readable", {ERROR}, FALSE, TRUE), L(LOG), Absent>>,
     <<FullWrapper("r1", "Readable", {DEBUG}, FALSE, TRUE), L(LOG), Absent>>,
     <<Wrapper("w2", "toString"), L(LOG), Absent>>,
     <<Wrapper("w2", "File"), Absent, Absent>>,
     <<Raw("u1"), Absent, Absent>>}

WrapDetachCalls ==
    {<<Raw("w1"), Absent, Absent>>,
     <<Raw("w1"), L(LOG), Absent>>,
     <<FullWrapper("w1", "Readable", {ERROR}, FALSE, TRUE), L(INFO), Absent>>,
     <<Raw("r1"), Absent, Absent>>,
     <<Wrapper("w2", "Writable"), Absent, Absent>>}

NextWrap ==
    \/ \E c \in WrapAttachCalls : Attach("A", c[1], c[2], c[3], Undefined)
    \/ \E c \in WrapDetachCalls : Detach("A", c[1], c[2], c[3])
    \/ ClearIO("A")
    \/ \E c \in Contents, t \in Times : Send("A", c, LOG, t)
    \/ \E c \in Contents, t \in Times : Shortcut("A", "error", c, t)
    \/ Clear("A")

SpecWrap == Init /\ [][NextWrap]_vars

-----------------------------------------------------------------------------
(* The level-list specification: logger A; the sink w1 is attached and       *)
(* detached with absent, one-level, two-level and empty level lists in       *)
(* either position, the sink w2 beside it with the defaults; sends at LOG    *)
(* and INFO.                                                                 *)

LevelLists == {Absent, L(LOG), ListArg(<<LOG, INFO>>), ListArg(<<>>)}

LevelAttachCalls ==
    {<<Raw("w1"), ins, outs>> : ins \in LevelLists, outs \in LevelLists}
    \cup {<<Raw("w2"), Absent, Absent>>}

LevelDetachCalls ==
    {<<Raw("w1"), ins, outs>> : ins \in LevelLists, outs \in LevelLists}
    \cup {<<Raw("w2"), Absent, Absent>>}

NextLevels ==
    \/ \E c \in LevelAttachCalls : Attach("A", c[1], c[2], c[3], Undefined)
    \/ \E c \in LevelDetachCalls : Detach("A", c[1], c[2], c[3])
    \/ \E c \in Contents, v \in SendLevels, t \in Times : Send("A", c, v, t)

SpecLevels == Init /\ [][NextLevels]_vars

-----------------------------------------------------------------------------
(* The order specification: logger A with the sinks w1 and w2 and the        *)
(* console c1, attached in any order for all levels or for one, attached     *)
(* again and detached completely; sends at LOG and INFO.                     *)

OrderAttachCalls ==
    {<<Raw(o), ins, Absent>> : o \in {"w1", "w2", "c1"}, ins \in {Absent, L(INFO)}}

OrderDetachCalls ==
    {<<Raw(o), Absent, Absent>> : o \in {"w1", "w2", "c1"}}

NextOrder ==
    \/ \E c \in OrderAttachCalls : Attach("A", c[1], c[2], c[3], Undefined)
    \/ \E c \in OrderDetachCalls : Detach("A", c[1], c[2], c[3])
    \/ \E c \in Contents, v \in SendLevels, t \in Times : Send("A", c, v, t)

SpecOrder == Init /\ [][NextOrder]_vars

-----------------------------------------------------------------------------
(* The held-message specification: loggers A (default format) and B (a       *)
(* format and a prefix of its own), each with the sink w1; a caller makes a  *)
(* message object and sends that same object again and again, on either      *)
(* logger, at different times.                                               *)

HeldOptionsB == Options(FALSE, TRUE, TRUE, <<Lit("> "), Var("message")>>, "NET")
HeldTimes    == {1000, 2000}

InitHeld == InitWith(TestOptions, HeldOptionsB)

NextHeld ==
    \/ \E l \in Loggers : Attach(l, Raw("w1"), Absent, Absent, Undefined)
    \/ \E c \in Contents, v \in {LOG, ERROR} : NewMessage(c, v)
    \/ \E l \in Loggers, t \in HeldTimes : SendHeld(l, t)
    \/ \E l \in Loggers : Clear(l)

SpecHeld == InitHeld /\ [][NextHeld]_vars

----------------------------------------------------------------------------
(* Vocabulary of the properties *)

\* the positions of the records of registry reg that wrap object o
RecordsOf(reg, o) == {i \in DOMAIN reg : reg[i].io = o}

Attached(reg, o) == RecordsOf(reg, o) # {}

\* registry reg without its records for o, the others in their order
RECURSIVE Without(_, _)
Without(reg, o) ==
    IF reg = <<>> THEN <<>>
    ELSE IF Head(reg).io = o THEN Without(Tail(reg), o)
    ELSE <<Head(reg)>> \o Without(Tail(reg), o)

\* how many times the last operation had logger l invoke the adapter send of o
Invocations(l, o) ==
    Cardinality({i \in DOMAIN effects :
        effects[i].kind = "adapter" /\ effects[i].logger = l /\ effects[i].obj = o})

LastIsSend == last.op \in {"send", "sendMessage"}

----------------------------------------------------------------------------
(* C1 *)

C1_Unique ==
    \A l \in Loggers : \A i, j \in DOMAIN io[l] :
        io[l][i].io = io[l][j].io => i = j

C1_Union ==
    \A l \in Loggers, o \in Objs :
        hist[l][o].tracked =>
            /\ Cardinality(RecordsOf(io[l], o)) = 1
            /\ \A i \in RecordsOf(io[l], o) :
                   /\ io[l][i].input.levels = hist[l][o].input
                   /\ io[l][i].output.levels = hist[l][o].output

C1_Step ==
    \A l \in Loggers :
        (last'.op = "attach" /\ last'.logger = l /\ Attached(io[l], last'.arg.io))
            => Len(io'[l]) = Len(io[l])

\* C1: whatever attach, detach, clearIO and send calls were made, a registry
\* holds at most one record per wrapped object; after attach calls for one
\* object with no detach in between there is exactly one record for it, its
\* level sets are the unions of the level sets those calls gave, and an
\* attach of an already attached object leaves attachedIO as it was.
C1_OneRecordPerIdentity == [](C1_Unique /\ C1_Union) /\ [][C1_Step]_vars

\* w1 was attached for LOG and, in another call, for INFO: one record
C1_Witness ==
    /\ last.op = "attach" /\ last.threw = "none" /\ last.arg.io = "w1"
    /\ hist["A"]["w1"].tracked
    /\ hist["A"]["w1"].output = {LOG, INFO}
    /\ Cardinality(RecordsOf(io["A"], "w1")) = 1
    /\ Len(io["A"]) = 2

----------------------------------------------------------------------------
(* C4 *)

ExplicitLevels(op) == op.ins.tag = "list" \/ op.outs.tag = "list"

\* C4: a detach with explicit levels removes exactly those levels from each
\* channel; the record is removed only if both level sets are then empty,
\* and otherwise stays, with the remaining levels, attachedIO unchanged.
C4_DetachLevels ==
    [][\A l \in Loggers :
        (/\ last'.op = "detach" /\ last'.logger = l
         /\ ExplicitLevels(last')
         /\ Attached(io[l], last'.arg.io))
        => LET o    == last'.arg.io
               k    == CHOOSE i \in RecordsOf(io[l], o) : TRUE
               ins  == io[l][k].input.levels \ Range(NormInput(last'.ins))
               outs == io[l][k].output.levels
                           \ Range(NormOutput(last'.ins, last'.outs))
           IN  IF ins = {} /\ outs = {}
               THEN io'[l] = Without(io[l], o)
               ELSE io'[l] = [io[l] EXCEPT ![k].input.levels = ins,
                                           ![k].output.levels = outs]
    ]_vars

----------------------------------------------------------------------------
(* C5 *)

C5_Step ==
    \A l \in Loggers :
        (/\ last'.op = "detach" /\ last'.logger = l
         /\ last'.ins = Absent /\ last'.outs = Absent
         /\ Attached(io[l], last'.arg.io))
        => /\ ~Attached(io'[l], last'.arg.io)
           /\ Len(io'[l]) = Len(io[l]) - 1
           /\ io'[l] = Without(io[l], last'.arg.io)
           /\ last'.threw = "none"

C5_Reach ==
    \A i \in DOMAIN effects :
        effects[i].kind \in {"adapter", "write", "call"}
            => Attached(io[effects[i].logger], effects[i].obj)

\* C5: detach(obj) with no levels removes the record of an attached obj
\* whatever levels it held: no record for obj is left, attachedIO is one
\* less, the other records are as they were, and a send only ever reaches
\* objects that have a record.
C5_DetachAll == []C5_Reach /\ [][C5_Step]_vars

\* w1, attached beside w2, has just been detached without levels
C5_Witness ==
    /\ last.op = "detach" /\ last.threw = "none" /\ last.arg.io = "w1"
    /\ last.ins = Absent /\ last.outs = Absent
    /\ ~Attached(io["A"], "w1") /\ Attached(io["A"], "w2")

----------------------------------------------------------------------------
(* C6 *)

\* C6: a detach of an object, raw or in an IO wrapper, that has no record
\* throws a ReferenceError and leaves the registry as it was.
C6_DetachUnknown ==
    [][\A l \in Loggers :
        (last'.op = "detach" /\ last'.logger = l /\ ~Attached(io[l], last'.arg.io))
        => /\ last'.threw = "ReferenceError"
           /\ io' = io
    ]_vars

\* a detach was refused while another object was attached
C6_Witness ==
    /\ last.op = "detach" /\ last.threw = "ReferenceError"
    /\ io["A"] # <<>>

----------------------------------------------------------------------------
(* C7 *)

\* the argument's type names no adapter: an object of an unsupported class,
\* or a wrapper naming an unknown type
Unsupported(arg) ==
    IF arg.wrapped
    THEN arg.type \notin
           {"Readable", "Writable", "ReadableStream", "WritableStream",
            "Console", "Logger"}
    ELSE arg.io \in Others

\* C7: an attach of an object whose type matches no adapter throws a
\* TypeError and leaves the registry as it was: no record is added and no
\* record's levels or prefix change.
C7_AttachUnsupported ==
    [][\A l \in Loggers :
        (last'.op = "attach" /\ last'.logger = l /\ Unsupported(last'.arg))
        => /\ last'.threw = "TypeError"
           /\ io' = io
    ]_vars

\* an attach of a wrapper naming an unknown type around the attached w2,
\* whose record does not hold the level the call gave, was refused
C7_Witness ==
    /\ last.op = "attach" /\ last.threw = "TypeError"
    /\ last.arg.wrapped /\ last.arg.io = "w2"
    /\ \E i \in RecordsOf(io["A"], "w2") : LOG \notin io["A"][i].input.levels

----------------------------------------------------------------------------
(* C2, C3, C8: dispatch *)

\* the level of the message the last send was given
MessageLevel == IF last.op = "send" THEN last.level ELSE last.msg.level

\* the spec's matching endpoint: output enabled, and the message's level in
\* the output level set
MatchesMessage(rec) == rec.output.enabled /\ MessageLevel \in rec.output.levels

\* the objects the last operation called into (a write or a console method)
Called == {effects[i].obj : i \in {j \in DOMAIN effects :
                                      effects[j].kind \in {"write", "call"}}}

\* the objects whose adapter send returned false in the last operation
Failed == {effects[i].obj : i \in {j \in DOMAIN effects :
                                      effects[j].kind = "result" /\ ~effects[j].ok}}

\* C2: a send of a message whose level is not in an endpoint's output level
\* set never invokes that endpoint's adapter send; the sink gets no call.
C2_OffLevelNotInvoked ==
    LastIsSend =>
        \A i \in DOMAIN io[last.logger] :
            LET rec == io[last.logger][i]
            IN  MessageLevel \notin rec.output.levels
                    => Invocations(last.logger, rec.io) = 0 /\ rec.io \notin Called

\* C3: in both call forms, every endpoint whose output channel is enabled
\* and whose output level set holds the message's level has its adapter send
\* invoked exactly once by the send.
C3_MatchingInvokedOnce ==
    LastIsSend =>
        \A i \in DOMAIN io[last.logger] :
            LET rec == io[last.logger][i]
            IN  MatchesMessage(rec) => Invocations(last.logger, rec.io) = 1

\* C8: when the adapter send of a matching endpoint fails, the result is
\* false, the send does not throw, and every other matching endpoint, before
\* or after the failing one, has its adapter send invoked exactly once.
C8_FailureIsolated ==
    LET reg == io[last.logger]
    IN  (/\ LastIsSend
         /\ \E f \in DOMAIN reg : MatchesMessage(reg[f]) /\ reg[f].io \in Failed)
        => /\ last.threw = "none"
           /\ \A i \in DOMAIN reg :
                  MatchesMessage(reg[i]) => Invocations(last.logger, reg[i].io) = 1

----------------------------------------------------------------------------
(* C9, C10: chained loggers and inbound data *)

\* the entry logger l computes for contents sent at a level, at time t
Formatted(l, contents, level, t) ==
    formatMessage(ObjectMsg(contents, level, options[l].prefix, Undefined),
                  options[l].format, t)

\* C9: with B attached as an endpoint of A, both retaining, one
\* A.send("x", level) at a level of B's output set puts the entry A computed
\* exactly once into B's retained entries and exactly once into A's.
C9_ChainedOnce ==
    [][(/\ last'.op = "send" /\ last'.logger = "A"
        /\ \E i \in RecordsOf(io["A"], "B") :
               /\ io["A"][i].output.enabled
               /\ last'.level \in io["A"][i].output.levels)
       => LET e == Formatted("A", last'.msg.contents, last'.level, clock')
          IN  /\ entries'["A"] = Append(entries["A"], e)
              /\ entries'["B"] = Append(entries["B"], e)
    ]_vars

\* does logger l listen to source o at this level?
Listens(l, o, level) ==
    \E i \in RecordsOf(io[l], o) :
        io[l][i].input.enabled /\ level \in io[l][i].input.levels

\* C10: once a source (or a logger) is attached with its input channel
\* enabled, each unit of data it emits goes through the logger's send: with
\* retention on, the logger's entries grow by one entry per unit.
C10_InboundRouted ==
    [][/\ \A l \in Loggers, o \in Sources :
            (/\ last'.op = "data" /\ last'.arg.io = o
             /\ Listens(l, o, LOG) /\ options[l].retainLogs)
            => Len(entries'[l]) = Len(entries[l]) + 1
       /\ \A l \in Loggers, o \in Loggers :
            (/\ last'.op = "send" /\ last'.logger = o /\ last'.threw = "none"
             /\ l # o /\ Listens(l, o, last'.level) /\ options[l].retainLogs)
            => Len(entries'[l]) = Len(entries[l]) + 1
    ]_vars

----------------------------------------------------------------------------
(* C11 *)

\* C11: clear() returns false and leaves the entries as they were when
\* retainLogs or allowClearing is false; otherwise it returns true and the
\* entries are empty right afterwards.  It never throws and never changes a
\* registry.
C11_Clear ==
    [][\A l \in Loggers :
        (last'.op = "clear" /\ last'.logger = l)
        => /\ last'.threw = "none"
           /\ io' = io
           /\ IF ~options[l].retainLogs \/ ~options[l].allowClearing
              THEN ~last'.returned /\ entries' = entries
              ELSE last'.returned /\ entries'[l] = <<>>
    ]_vars

\* a clear was refused (clearing disallowed) while an entry was retained and
\* an endpoint attached
C11_Witness ==
    /\ last.op = "clear" /\ ~last.returned
    /\ options["A"].retainLogs /\ ~options["A"].allowClearing
    /\ entries["A"] # <<>> /\ io["A"] # <<>>

----------------------------------------------------------------------------
(* C12 *)

\* the operations that are one send call of the logger
SendOps == {"send", "sendMessage"} \cup ShortcutNames

\* the computed string of the send recorded in op, made at time t by logger l
ComputedOf(l, op, t) ==
    IF op.op = "sendMessage"
    THEN IF Truthy(op.msg.computed) THEN op.msg.computed
         ELSE formatMessage(op.msg, options[l].format, t)
    ELSE Formatted(l, op.msg.contents, op.level, t)

C12_Step ==
    \A l \in Loggers :
        options[l].retainLogs =>
            /\ (last'.op \in SendOps /\ last'.logger = l /\ last'.threw = "none")
                   => entries'[l] = Append(entries[l], ComputedOf(l, last', clock'))
            /\ Len(entries'[l]) < Len(entries[l])
                   => /\ last'.op = "clear" /\ last'.logger = l /\ last'.returned
                      /\ entries'[l] = <<>>
            /\ Len(entries'[l]) >= Len(entries[l])
                   => SubSeq(entries'[l], 1, Len(entries[l])) = entries[l]

\* C12: with retention on, every send appends exactly one entry, its
\* computed string, at the end of the retained sequence; the entries of
\* earlier sends keep their order and contents; the sequence shrinks only
\* through a successful clear(), which empties it.
C12_AppendOnly == [][C12_Step]_vars

\* a second, different entry has just been appended behind the first
C12_Witness ==
    /\ last.op \in SendOps /\ options["A"].retainLogs
    /\ Len(entries["A"]) = 2 /\ entries["A"][1] # entries["A"][2]
    /\ entries["A"][2] = ComputedOf("A", last, clock)

----------------------------------------------------------------------------
(* C13 *)

\* the level of the message the last send call carried
SentLevel == IF last.op = "sendMessage" THEN last.msg.level ELSE last.level

\* C13: a logger constructed with retainLogs false has no entries and an
\* empty toString() whatever sends, shortcut calls, attach, detach and clear
\* calls were made, and every endpoint whose output set holds the level of
\* a sent message is still invoked for it.
C13_NoRetention ==
    \A l \in Loggers :
        ~options[l].retainLogs =>
            /\ entries[l] = <<>>
            /\ toString(entries[l]) = ""
            /\ (last.op \in SendOps /\ last.logger = l)
                   => \A i \in DOMAIN io[l] :
                          (io[l][i].output.enabled /\ SentLevel \in io[l][i].output.levels)
                              => Invocations(l, io[l][i].io) = 1

----------------------------------------------------------------------------
(* C14 *)

\* the positions in effects of the write calls the last operation made on o
Writes(o) ==
    {i \in DOMAIN effects : effects[i].kind = "write" /\ effects[i].obj = o}

\* C14: for a byte sink whose output level set holds the sent level, one
\* send or shortcut call makes exactly one write call on the sink, and the
\* string written is the string this send appended to the entries.
C14_SinkGetsEntry ==
    \A l \in Loggers :
        (last.op \in SendOps /\ last.logger = l /\ options[l].retainLogs)
        => \A i \in DOMAIN io[l] :
               (/\ io[l][i].io \in Sinks
                /\ io[l][i].output.enabled
                /\ SentLevel \in io[l][i].output.levels)
               => /\ Cardinality(Writes(io[l][i].io)) = 1
                  /\ \A k \in Writes(io[l][i].io) :
                         effects[k].data = entries[l][Len(entries[l])]

----------------------------------------------------------------------------
(* C15 *)

\* the positions in effects of the steps of kind k that logger l took
StepsOf(l, kinds) ==
    {i \in DOMAIN effects : effects[i].logger = l /\ effects[i].kind \in kinds}

\* the positions of logger l's notifications to the observers of an event
Notified(l, name) ==
    {i \in StepsOf(l, {"emit"}) : effects[i].name = name}

\* C15: within one send call the entry is retained first, then the matching
\* endpoints are dispatched to, and only then the 'entry' and 'send'
\* observers are notified, inside the same call (when send returns both
\* notifications have been made).
C15_EffectOrder ==
    \A l \in Loggers :
        (last.op \in SendOps /\ last.logger = l /\ last.threw = "none")
        => /\ Notified(l, "entry") # {} /\ Notified(l, "send") # {}
           /\ options[l].retainLogs => StepsOf(l, {"retain"}) # {}
           /\ \A r \in StepsOf(l, {"retain"}),
                 a \in StepsOf(l, {"adapter", "write", "call", "result"}) : r < a
           /\ \A a \in StepsOf(l, {"retain", "adapter", "write", "call", "result"}),
                 e \in Notified(l, "entry") \cup Notified(l, "send") : a < e

\* a send retained its entry, wrote to the sink w1 and notified the observers
C15_Witness ==
    /\ last.op \in SendOps /\ last.threw = "none"
    /\ StepsOf("A", {"retain"}) # {}
    /\ \E a \in StepsOf("A", {"write"}) : effects[a].obj = "w1"
    /\ Notified("A", "entry") # {} /\ Notified("A", "send") # {}

----------------------------------------------------------------------------
(* C16 *)

\* C16: every send call that completes makes exactly one 'entry'
\* notification, carrying the computed string and the message's level, and
\* exactly one 'send' notification, carrying the message; in both call
\* forms, with or without endpoints, with retention on or off.
C16_Notifications ==
    \A l \in Loggers :
        (last.op \in SendOps /\ last.logger = l /\ last.threw = "none")
        => /\ Cardinality(Notified(l, "entry")) = 1
           /\ Cardinality(Notified(l, "send")) = 1
           /\ \A e \in Notified(l, "entry") :
                  /\ effects[e].data = ComputedOf(l, last, clock)
                  /\ effects[e].level = SentLevel
           /\ \A e \in Notified(l, "send") :
                  /\ effects[e].data = ComputedOf(l, last, clock)
                  /\ effects[e].level = SentLevel

----------------------------------------------------------------------------
(* C17 *)

\* the level of the message carried by the send recorded in op
LevelOf(op) == IF op.op = "sendMessage" THEN op.msg.level ELSE op.level

\* no record of the registry has its output enabled for this level
NoneMatches(reg, level) ==
    \A i \in DOMAIN reg : ~(reg[i].output.enabled /\ level \in reg[i].output.levels)

\* C17: a send with no endpoint attached, or with no attached endpoint
\* matching the message's level, does not throw; it retains the entry when
\* retention is on and leaves the registry as it was.
C17_NoMatchNoThrow ==
    [][\A l \in Loggers :
        (/\ last'.op \in SendOps /\ last'.logger = l
         /\ NoneMatches(io[l], LevelOf(last')))
        => /\ last'.threw = "none"
           /\ io' = io
           /\ entries'[l] = IF options[l].retainLogs
                            THEN Append(entries[l], ComputedOf(l, last', clock'))
                            ELSE entries[l]
    ]_vars

\* a send at a level the only attached endpoint is not attached for has
\* returned, and its entry is retained
C17_Witness ==
    /\ last.op \in SendOps /\ last.threw = "none"
    /\ io["A"] # <<>> /\ NoneMatches(io["A"], SentLevel)
    /\ options["A"].retainLogs
    /\ entries["A"] # <<>>
    /\ entries["A"][Len(entries["A"])] = ComputedOf("A", last, clock)

----------------------------------------------------------------------------
(* C18 *)

\* C18: an attach, without explicit levels, of an object that has no record
\* creates a record whose input and output level sets are both the full
\* level set {LOG, INFO, WARN, ERROR, DEBUG}.
C18_DefaultLevels ==
    [][\A l \in Loggers :
        (/\ last'.op = "attach" /\ last'.logger = l /\ last'.threw = "none"
         /\ last'.ins = Absent /\ last'.outs = Absent
         /\ ~Attached(io[l], last'.arg.io))
        => /\ Cardinality(RecordsOf(io'[l], last'.arg.io)) = 1
           /\ Len(io'[l]) = Len(io[l]) + 1
           /\ \A i \in RecordsOf(io'[l], last'.arg.io) :
                  /\ io'[l][i].input.levels = {LOG, INFO, WARN, ERROR, DEBUG}
                  /\ io'[l][i].output.levels = {LOG, INFO, WARN, ERROR, DEBUG}
    ]_vars

\* w2 has been attached without levels, beside w1: its record, the newest,
\* holds every level in both sets
C18_Witness ==
    /\ last.op = "attach" /\ last.threw = "none" /\ last.arg = Raw("w2")
    /\ last.ins = Absent /\ last.outs = Absent
    /\ Len(io["A"]) = 2 /\ io["A"][2].io = "w2"
    /\ io["A"][2].input.levels = {LOG, INFO, WARN, ERROR, DEBUG}
    /\ io["A"][2].output.levels = {LOG, INFO, WARN, ERROR, DEBUG}

----------------------------------------------------------------------------
(* C19 *)

C19_Created ==
    \A l \in Loggers :
        (/\ last'.op = "attach" /\ last'.logger = l /\ last'.threw = "none"
         /\ ~Attached(io[l], last'.arg.io))
        => \A i \in RecordsOf(io'[l], last'.arg.io) :
               /\ io'[l][i].input.enabled
                      <=> io'[l][i].type \in {"Readable", "ReadableStream", "Logger"}
               /\ io'[l][i].output.enabled
                      <=> io'[l][i].type \in
                              {"Writable", "WritableStream", "Console", "Logger"}

C19_NeverDispatched ==
    \A l \in Loggers : \A i \in DOMAIN io[l] :
        io[l][i].type \in {"Readable", "ReadableStream"}
            => /\ Invocations(l, io[l][i].io) = 0
               /\ io[l][i].io \notin Called

\* C19: a newly created record has input.enabled true exactly when the
\* adapter of its type provides receive and output.enabled true exactly when
\* it provides send; an endpoint of a receive-only type (Readable,
\* ReadableStream) is never dispatched to by a send, whatever its output
\* levels.
C19_EnabledByAdapter == []C19_NeverDispatched /\ [][C19_Created]_vars

\* A has just sent at a level that is in the output set of the attached
\* source r1 and of the attached logger B: B's adapter was invoked, r1's not
C19_Witness ==
    /\ last.op = "send" /\ last.logger = "A"
    /\ \E i \in RecordsOf(io["A"], "r1") :
           /\ last.level \in io["A"][i].output.levels
           /\ ~io["A"][i].output.enabled /\ io["A"][i].input.enabled
    /\ Invocations("A", "r1") = 0
    /\ Invocations("A", "B") = 1

----------------------------------------------------------------------------
(* C20 *)

\* the prefix an attach call was given: the third argument when it is a
\* string, the fourth otherwise
GivenPrefix(op) == IF op.outs.tag = "string" THEN op.outs.str ELSE op.pfx

\* C20: an attach with a non-empty prefix, in the three-argument form as in
\* the four-argument form, leaves the record of the object with that
\* prefix, whether the record is new or was there; an attach without a
\* prefix of an attached object leaves the stored prefix as it was.
C20_PrefixStored ==
    [][\A l \in Loggers :
        (last'.op = "attach" /\ last'.logger = l /\ last'.threw = "none")
        => LET o == last'.arg.io
               p == GivenPrefix(last')
           IN  /\ Cardinality(RecordsOf(io'[l], o)) = 1
               /\ \A i \in RecordsOf(io'[l], o) :
                      IF Truthy(p) THEN io'[l][i].prefix = p
                      ELSE \A k \in RecordsOf(io[l], o) :
                               io'[l][i].prefix = io[l][k].prefix
    ]_vars

----------------------------------------------------------------------------
(* C21 *)

\* C21: the records of a registry belong to one logger: an attach, a detach
\* or a clearIO on one logger, also of an object (or IO wrapper) that is
\* attached to both, leaves every record, level set and the attachedIO of
\* the other logger as they were.
C21_RecordsNotShared ==
    [][\A l \in Loggers :
        (last'.op \in {"attach", "detach", "clearIO"} /\ last'.logger = l)
        => \A k \in Loggers \ {l} :
               /\ io'[k] = io[k]
               /\ attachedIO(io'[k]) = attachedIO(io[k])
    ]_vars

\* w1 is attached to both loggers with different level sets, and A has just
\* detached levels of its own record
C21_Witness ==
    /\ last.op = "detach" /\ last.logger = "A" /\ last.threw = "none"
    /\ last.arg.io = "w1"
    /\ \E i \in RecordsOf(io["A"], "w1"), k \in RecordsOf(io["B"], "w1") :
           /\ io["A"][i].output.levels = {INFO}
           /\ io["B"][k].output.levels = {LOG, INFO}

----------------------------------------------------------------------------
(* C22 *)

\* C22: a message that already has its computed string when send is called
\* is not formatted again: the string retained, the string delivered to
\* every matching endpoint and the string of the 'entry' notification are
\* that computed string, whatever the format and prefix options are.
C22_ComputedKept ==
    \A l \in Loggers :
        (/\ last.op = "sendMessage" /\ last.logger = l /\ last.threw = "none"
         /\ Truthy(last.msg.computed))
        => /\ options[l].retainLogs
                  => entries[l][Len(entries[l])] = last.msg.computed
           /\ \A e \in Notified(l, "entry") : effects[e].data = last.msg.computed
           /\ \A k \in StepsOf(l, {"write", "call"}) :
                  effects[k].data = last.msg.computed

----------------------------------------------------------------------------
(* C23 *)

\* logger l dispatches a message of this level to logger k
Feeds(l, k, level) ==
    \E i \in RecordsOf(io[l], k) :
        io[l][i].output.enabled /\ level \in io[l][i].output.levels

\* l and k are attached to each other with this level in common
Cyclic(l, k, level) == l # k /\ Feeds(l, k, level) /\ Feeds(k, l, level)

\* C23: when two loggers are attached to each other with a common output
\* level, a send at that level on either of them recurses between the two
\* and does not complete normally; when the loggers are not attached in a
\* cycle every send completes.
C23_CycleUnguarded ==
    \A l \in Loggers :
        (last.op = "send" /\ last.logger = l)
        => IF \E k \in Loggers : Cyclic(l, k, last.level)
           THEN last.threw # "none"
           ELSE last.threw = "none"

----------------------------------------------------------------------------
(* C24 *)

----------------------------------------------------------------------------
(* C29 *)

\* the console method the spec names for a level
MethodFor(level) ==
    CASE level = LOG   -> "log"
      [] level = INFO  -> "info"
      [] level = WARN  -> "warn"
      [] level = ERROR -> "error"
      [] level = DEBUG -> "debug"

\* the positions in effects of the method calls the last operation made on o
Calls(o) ==
    {i \in DOMAIN effects : effects[i].kind = "call" /\ effects[i].obj = o}

\* the results the adapter send of o reported in the last operation
Results(o) ==
    {effects[i].ok : i \in {j \in DOMAIN effects :
                               effects[j].kind = "result" /\ effects[j].obj = o}}

\* C29: the Console adapter's send calls on the object exactly the method
\* named by the lowercase name of the message's level and no other; when
\* the object has no such method it calls nothing and reports true; when
\* the method throws it reports false and nothing is thrown.
C29_ConsoleMethod ==
    \A l \in Loggers :
        (last.op = "send" /\ last.logger = l)
        => \A i \in DOMAIN io[l] :
               LET o == io[l][i].io
               IN  (io[l][i].type = "Console" /\ Invocations(l, o) = 1)
                   => /\ last.threw = "none"
                      /\ \A k \in Calls(o) : effects[k].name = MethodFor(last.level)
                      /\ IF MethodFor(last.level) \in ConsoleMethods(o)
                         THEN /\ Cardinality(Calls(o)) = 1
                              /\ Results(o) = {~ConsoleThrows(o)}
                         ELSE /\ Calls(o) = {}
                              /\ Results(o) = {TRUE}

\* a send at WARN reached the console c1 (warn called), the object c2 that
\* has no warn method (nothing called) and c3, whose warn throws
C29_Witness ==
    /\ last.op = "send" /\ last.level = WARN /\ last.threw = "none"
    /\ Cardinality(Calls("c1")) = 1 /\ Results("c1") = {TRUE}
    /\ Invocations("A", "c2") = 1 /\ Calls("c2") = {} /\ Results("c2") = {TRUE}
    /\ Cardinality(Calls("c3")) = 1 /\ Results("c3") = {FALSE}

----------------------------------------------------------------------------
(* C25 *)

C25_Step ==
    \A l \in Loggers :
        /\ (last'.op = "clearIO" /\ last'.logger = l)
               => /\ last'.threw = "none"
                  /\ io'[l] = <<>>
                  /\ attachedIO(io'[l]) = 0
                  /\ entries' = entries
        /\ (last'.op = "detach" /\ last'.logger = l /\ io[l] = <<>>)
               => last'.threw = "ReferenceError" /\ io'[l] = <<>>
        /\ (last'.op \in SendOps /\ last'.logger = l /\ io[l] = <<>>)
               => /\ last'.threw = "none"
                  /\ \A i \in DOMAIN effects' :
                         effects'[i].kind \notin {"adapter", "write", "call"}

\* C25: clearIO() removes every record and cannot fail: afterwards
\* attachedIO is 0 and the retained entries are as before; until something
\* is attached again a send reaches no endpoint and a detach of any object
\* fails with a ReferenceError.
C25_ClearIO == [][C25_Step]_vars

\* the registry has just been cleared while entries were retained
C25_Witness ==
    /\ last.op = "clearIO" /\ last.logger = "A"
    /\ io["A"] = <<>> /\ entries["A"] # <<>>

-----------------------------------------------------------------------------
(* C27 *)

\* the level each shortcut method is documented to send at
FixedLevel(name) ==
    CASE name = "log"   -> LOG
      [] name = "info"  -> INFO
      [] name = "warn"  -> WARN
      [] name = "error" -> ERROR
      [] name = "debug" -> DEBUG

\* the positions in effects' of the steps of the given kinds logger l made
StepsAfter(l, kinds) ==
    {i \in DOMAIN effects' : effects'[i].kind \in kinds /\ effects'[i].logger = l}

C27_Step ==
    \A l \in Loggers :
        (last'.op \in ShortcutNames /\ last'.logger = l)
        => LET name  == last'.op
               level == FixedLevel(name)
               given == last'.arg.io
               text  == IF given \in Errors THEN "Error: " \o ErrorMessage(given)
                        ELSE given
               sends   == {i \in StepsAfter(l, {"emit"}) : effects'[i].name = "send"}
               entered == {i \in StepsAfter(l, {"emit"}) : effects'[i].name = "entry"}
               named   == {i \in StepsAfter(l, {"emit"}) : effects'[i].name \in ShortcutNames}
               returns == StepsAfter(l, {"return"})
           IN  /\ last'.threw = "none" /\ last'.level = level
               /\ Cardinality(sends) = 1 /\ Cardinality(entered) = 1
               /\ \A i \in entered : effects'[i].level = level
               /\ IF options[l].retainLogs
                  THEN /\ Len(entries'[l]) = Len(entries[l]) + 1
                       /\ Cardinality(StepsAfter(l, {"retain"})) = 1
                  ELSE entries'[l] = entries[l]
               /\ \A i \in DOMAIN io[l] :
                      Cardinality({j \in StepsAfter(l, {"adapter"}) :
                                      effects'[j].obj = io[l][i].io})
                          = IF io[l][i].output.enabled /\ level \in io[l][i].output.levels
                            THEN 1 ELSE 0
               /\ Cardinality(named) = 1
               /\ \A i \in named :
                      /\ effects'[i].name = name /\ effects'[i].data = text
                      /\ \A j \in sends \cup entered : j < i
               /\ IF name \in {"warn", "error"}
                  THEN /\ Cardinality(returns) = 1
                       /\ \A i \in returns :
                              /\ \A j \in named : j < i
                              /\ IF given \in Errors
                                 THEN effects'[i].obj = given
                                 ELSE /\ effects'[i].obj \notin Errors
                                      /\ effects'[i].data = given
                  ELSE returns = {}

\* C27: each shortcut method makes exactly one send at its fixed level: one
\* entry is retained (with retention on), exactly the endpoints whose output
\* set holds that level are invoked, once each; after the send's own 'send'
\* and 'entry' notifications it makes exactly one notification of its own
\* name carrying the content string that was sent (for an Error argument its
\* string form); warn and error then return an Error, the one passed in or a
\* new one built from the string, and the other three return nothing.
C27_Shortcuts == [][C27_Step]_vars

\* error(e1) was called with a sink attached for ERROR: the sink was invoked,
\* the entry retained, and the Error passed in came back
C27_Witness ==
    /\ last.op = "error" /\ last.arg.io \in Errors /\ options["A"].retainLogs
    /\ Invocations("A", "w1") = 1 /\ entries["A"] # <<>>
    /\ \E i \in DOMAIN effects : effects[i].kind = "return" /\ effects[i].obj = "e1"

-----------------------------------------------------------------------------
(* C30 *)

\* logger l holds a record that matches the level and names no known adapter
CorruptAt(l, level) ==
    \E i \in DOMAIN io[l] :
        Matches(io[l][i], level) /\ io[l][i].type \notin InterfaceNames

\* a send of logger l at this level comes to such a record, in its own
\* registry or in that of a logger it fans out to
CorruptReached(l, level) ==
    \/ CorruptAt(l, level)
    \/ \E k \in Loggers \ {l} : Feeds(l, k, level) /\ CorruptAt(k, level)

\* C30: a send that comes to a matching record whose type names no known
\* adapter, in the registry of the logger it was called on or in that of a
\* nested logger reached through the fan-out, throws the TypeError to its
\* caller; it never completes normally.
C30_InvalidTypePropagates ==
    \A l \in Loggers :
        (last.op = "send" /\ last.logger = l /\ CorruptReached(l, last.level))
            => last.threw = "TypeError"

\* the part of C30 about the logger the send was called on
C30_TopLevel ==
    \A l \in Loggers :
        (last.op = "send" /\ last.logger = l /\ CorruptAt(l, last.level))
            => last.threw = "TypeError"

-----------------------------------------------------------------------------
(* C26 *)

C26_Step ==
    /\ last'.op = "entries"
           => /\ snap'.items = entries[last'.logger]
              /\ entries' = entries
    /\ last'.op = "mutate" => entries' = entries
    /\ (last'.op \in SendOps \cup {"clear"} /\ snap.taken)
           => snap'.items = snap.items

\* C26: the array the entries getter returns holds the retained entries of
\* that moment; changing it (push, pop, assignment to an element) leaves the
\* logger's retained sequence as it was, and the sends and clear() calls
\* made after it was got leave its items as they were.
C26_SnapshotCopy == [][C26_Step]_vars

\* the array got earlier was changed by the caller and the logger has sent
\* since: the two hold different items, the logger's entries are not empty
C26_Witness ==
    /\ last.op = "mutate" /\ snap.taken
    /\ entries["A"] # <<>> /\ snap.items # entries["A"]
    /\ \E i \in DOMAIN snap.items : snap.items[i] \in SnapshotItems

-----------------------------------------------------------------------------
(* C28 *)

\* the receive calls now waiting for data from object o
Subscriptions(o) ==
    IF o \in Streams THEN IF reading[o].active THEN 1 ELSE 0
    ELSE listeners[o]

\* the handler invocations the last operation made for data of object o
HandlerCalls(o) ==
    Cardinality({i \in DOMAIN effects :
        effects[i].kind = "handler" /\ effects[i].obj = o})

\* C28: when an object yields a unit of data (a 'data' event of a byte
\* stream, a chunk of a web stream, an 'entry' of a logger), each handler a
\* receive call has subscribed on it is invoked once, at that moment.
C28_HandlerPerUnit ==
    /\ last.op \in {"data", "chunk"}
           => HandlerCalls(last.arg.io) = Subscriptions(last.arg.io)
    /\ (last.op \in SendOps /\ last.threw = "none")
           => HandlerCalls(last.logger) = listeners[last.logger]

\* the part of C28 about the two event sources, the byte stream and the logger
C28_EventSources ==
    /\ last.op = "data"
           => /\ HandlerCalls(last.arg.io) = listeners[last.arg.io]
              /\ \A i \in DOMAIN effects : effects[i].data = Trim(last.msg.contents)
    /\ (last.op \in SendOps /\ last.threw = "none")
           => HandlerCalls(last.logger) = listeners[last.logger]

-----------------------------------------------------------------------------
(* C31 *)

\* C31: whatever public operations were called, every record in the
\* registry has a type that names one of the six adapters, and no send
\* throws for an invalid type.
C31_KnownTypes ==
    \A l \in Loggers :
        /\ \A i \in DOMAIN io[l] :
               io[l][i].type \in
                   {"Readable", "Writable", "ReadableStream", "WritableStream",
                    "Console", "Logger"}
        /\ (last.op \in SendOps /\ last.logger = l) => last.threw = "none"

\* the part of C31 about send: no send of a string throws
C31_SendNeverThrows ==
    \A l \in Loggers : (last.op \in SendOps /\ last.logger = l) => last.threw = "none"

-----------------------------------------------------------------------------
(* C32 *)

\* C32: whatever attach and detach calls were made, no record of the
\* registry has both its input level set and its output level set empty.
C32_NoDeadRecord ==
    \A l \in Loggers : \A i \in DOMAIN io[l] :
        io[l][i].input.levels # {} \/ io[l][i].output.levels # {}

\* the part of C32 about detach: a detach never makes a record whose level
\* sets are both empty (one it leaves in place was like that before)
C32_DetachLeavesNone ==
    [][\A l \in Loggers :
          last'.op = "detach" /\ last'.logger = l
              => \A i \in DOMAIN io'[l] :
                     (io'[l][i].input.levels = {} /\ io'[l][i].output.levels = {})
                         => \E j \in DOMAIN io[l] : io[l][j] = io'[l][i]]_vars

-----------------------------------------------------------------------------
(* C33 *)

C33_Step ==
    \A l \in Loggers :
        last'.op \in {"attach", "detach"} \cup SendOps \cup {"clear"}
        => \A i \in DOMAIN io[l], j \in DOMAIN io'[l] :
               io'[l][j].io = io[l][i].io
                   => /\ io'[l][j].type = io[l][i].type
                      /\ io'[l][j].input.enabled = io[l][i].input.enabled
                      /\ io'[l][j].output.enabled = io[l][i].output.enabled

\* C33: the type and the two enabled flags of a record stay as they were
\* when the record was created: an attach of the same object again (raw, or
\* through a wrapper naming another type or carrying other flags), a detach
\* of levels and a send leave all three unchanged.
C33_TypeFixed == [][C33_Step]_vars

\* w1, attached as a Writable, was attached again through a wrapper naming
\* Readable: its record took the level and is still an enabled Writable
C33_Witness ==
    /\ last.op = "attach" /\ last.threw = "none"
    /\ last.arg.wrapped /\ last.arg.io = "w1" /\ last.arg.type = "Readable"
    /\ \E i \in RecordsOf(io["A"], "w1") :
           /\ io["A"][i].type = "Writable"
           /\ io["A"][i].output.enabled /\ ~io["A"][i].input.enabled
           /\ LOG \in io["A"][i].output.levels

-----------------------------------------------------------------------------
(* C34 *)

C34_Step ==
    /\ last'.op \in {"attach", "detach", "clearIO"} => entries' = entries
    /\ last'.op \in SendOps \cup {"clear"} => io' = io

\* C34: attach, detach and clearIO, whether they succeed or throw, leave
\* the retained entries of every logger as they were; send, clear and the
\* shortcut methods leave every registry, its records and their level sets
\* as they were.
C34_Independent == [][C34_Step]_vars

\* a clear() emptied the entries and both endpoints are still attached
C34_Witness ==
    /\ last.op = "clear" /\ last.returned /\ entries["A"] = <<>>
    /\ attachedIO(io["A"]) = 2

\* a detach was refused while entries were retained
C34_WitnessRefused ==
    last.op = "detach" /\ last.threw = "ReferenceError" /\ entries["A"] # <<>>

-----------------------------------------------------------------------------
(* C35 *)

\* the objects of the records of a registry, in the registry's order
ObjectsOf(reg) == [i \in DOMAIN reg |-> reg[i].io]

\* the objects whose adapter logger l invoked, in the order of the calls
InvokedBy(fx, l) ==
    LET calls == SelectSeq(fx, LAMBDA e : e.kind = "adapter" /\ e.logger = l)
    IN  [i \in DOMAIN calls |-> calls[i].obj]

\* the objects of the records that match the level, in the registry's order
MatchingIn(reg, level) ==
    ObjectsOf(SelectSeq(reg, LAMBDA rec : Matches(rec, level)))

\* the sequence without the object o
Skipping(objs, o) == SelectSeq(objs, LAMBDA x : x # o)

C35_Step ==
    \A l \in Loggers :
        /\ (last'.op = "send" /\ last'.logger = l /\ last'.threw = "none")
               => InvokedBy(effects', l) = MatchingIn(io[l], last'.level)
        /\ (last'.op = "attach" /\ last'.logger = l /\ last'.threw = "none")
               => ObjectsOf(io'[l]) =
                      IF Attached(io[l], last'.arg.io)
                      THEN ObjectsOf(io[l])
                      ELSE Append(ObjectsOf(io[l]), last'.arg.io)
        /\ (last'.op = "detach" /\ last'.logger = l /\ last'.threw = "none")
               => ObjectsOf(io'[l]) \in
                      {ObjectsOf(io[l]), Skipping(ObjectsOf(io[l]), last'.arg.io)}

\* C35: a send invokes the matching endpoints in the order of their records,
\* which is the order in which the objects were first attached: an attach
\* of an object that has a record leaves every position as it was, an
\* attach of one that has none puts it last, and a detach takes the object
\* out without reordering the others.
C35_AttachOrder == [][C35_Step]_vars

\* three endpoints are attached, c1 between w2 and w1; a send at LOG went to
\* w2 and then to w1, c1 being attached for INFO only
C35_Witness ==
    /\ last.op = "send" /\ last.level = LOG
    /\ ObjectsOf(io["A"]) = <<"w2", "c1", "w1">>
    /\ InvokedBy(effects, "A") = <<"w2", "w1">>

-----------------------------------------------------------------------------
(* C36 *)

\* the string a send of the held message object on logger l works with: the
\* one stored on the object by an earlier send, or else the one l formats now
HeldString(l) ==
    IF Truthy(held.computed) THEN held.computed
    ELSE formatMessage(held, options[l].format, clock')

\* what send(message) does with the held object apart from the endpoints
C36_StoredStep ==
    \A l \in Loggers :
        (last'.op = "sendMessage" /\ last'.logger = l /\ last'.msg = held)
        => /\ last'.threw = "none"
           /\ held'.computed = HeldString(l)
           /\ entries'[l] = Append(entries[l], HeldString(l))
           /\ \A i \in DOMAIN effects' :
                  (effects'[i].kind = "emit" /\ effects'[i].name = "entry")
                      => effects'[i].data = HeldString(l)

\* what the endpoints get
C36_DeliveredStep ==
    \A l \in Loggers :
        (last'.op = "sendMessage" /\ last'.logger = l /\ last'.msg = held)
        => \A i \in DOMAIN io[l] :
               Matches(io[l][i], LOG)
                   => \E j \in DOMAIN effects' :
                          /\ effects'[j].kind = "write"
                          /\ effects'[j].obj = io[l][i].io
                          /\ effects'[j].data = HeldString(l)

\* C36: send(message) stores the computed string on the caller's message
\* object; a later send of the same object, on the same logger or on one
\* with another format or prefix, retains, notifies and delivers to its
\* matching endpoints that stored string and formats nothing.
C36_ComputedReused == [][C36_StoredStep /\ C36_DeliveredStep]_vars

\* the part of C36 about the object, the entries and the notification
C36_Stored == [][C36_StoredStep]_vars

-----------------------------------------------------------------------------
(* C37 *)

\* the levels object o is attached for on one channel of registry reg: those
\* of its record, none when it has no record
InputOf(reg, o) ==
    IF Attached(reg, o) THEN reg[Find(reg, o)].input.levels ELSE {}
OutputOf(reg, o) ==
    IF Attached(reg, o) THEN reg[Find(reg, o)].output.levels ELSE {}

\* the level list a call means for a channel: the list given for it; for
\* the output channel the first list when there is no second; all levels
\* when no list is given at all
MeantForInput(op) ==
    IF op.ins.tag = "list" THEN Range(op.ins.list) ELSE {LOG, INFO, WARN, ERROR, DEBUG}
MeantForOutput(op) ==
    IF op.outs.tag = "list" THEN Range(op.outs.list) ELSE MeantForInput(op)

C37_AttachStep ==
    \A l \in Loggers :
        (last'.op = "attach" /\ last'.logger = l /\ last'.threw = "none")
        => LET o == last'.arg.io
           IN  /\ InputOf(io'[l], o)  = InputOf(io[l], o)  \cup MeantForInput(last')
               /\ OutputOf(io'[l], o) = OutputOf(io[l], o) \cup MeantForOutput(last')

C37_DetachStep ==
    \A l \in Loggers :
        (last'.op = "detach" /\ last'.logger = l /\ last'.threw = "none")
        => LET o == last'.arg.io
           IN  /\ InputOf(io'[l], o)  = InputOf(io[l], o)  \ MeantForInput(last')
               /\ OutputOf(io'[l], o) = OutputOf(io[l], o) \ MeantForOutput(last')

\* C37: attach(obj, L) adds L to the input and to the output level set of
\* obj's record and detach(obj, L) removes L from both; with two lists each
\* channel changes by its own list only.
C37_ListForms == [][C37_AttachStep /\ C37_DetachStep]_vars

\* the part of C37 about attach
C37_Attach == [][C37_AttachStep]_vars

\* the part of C37 about detach, for the calls after which the object is
\* still attached
C37_DetachKept ==
    [][\A l \in Loggers :
          (/\ last'.op = "detach" /\ last'.logger = l /\ last'.threw = "none"
           /\ Attached(io'[l], last'.arg.io))
          => LET o == last'.arg.io
             IN  /\ InputOf(io'[l], o)  = InputOf(io[l], o)  \ MeantForInput(last')
                 /\ OutputOf(io'[l], o) = OutputOf(io[l], o) \ MeantForOutput(last')]_vars

-----------------------------------------------------------------------------
(* C38 *)

C38_Step ==
    \A l \in Loggers :
        LET o == last'.arg.io
        IN  /\ (last'.op = "attach" /\ last'.logger = l /\ last'.threw = "none")
                   => /\ Cardinality(RecordsOf(io'[l], o)) = 1
                      /\ Len(io'[l]) = IF Attached(io[l], o) THEN Len(io[l])
                                       ELSE Len(io[l]) + 1
                      /\ (last'.arg.wrapped /\ ~Attached(io[l], o))
                             => LET rec == io'[l][Len(io'[l])]
                                IN  /\ rec.io = o
                                    /\ rec.type = last'.arg.type
                                    /\ rec.input.levels = MeantForInput(last')
                                    /\ rec.output.levels = MeantForOutput(last')
                                    /\ rec.input.enabled
                                           <=> rec.type \in {"Readable", "ReadableStream",
                                                             "Logger"}
                                    /\ rec.output.enabled
                                           <=> rec.type \in {"Writable", "WritableStream",
                                                             "Console", "Logger"}
            /\ (last'.op = "detach" /\ last'.logger = l)
                   => /\ last'.threw = "none" <=> Attached(io[l], o)
                      /\ \A i \in DOMAIN io'[l] :
                             io'[l][i].io # o => \E j \in DOMAIN io[l] : io[l][j] = io'[l][i]

\* C38: attach and detach find the record by the object, the wrapped one
\* when they are given an IO wrapper: a wrapper and the raw object address
\* the same single record. A record made from a wrapper has the type the
\* wrapper names, the levels of the call's level arguments and the enabled
\* flags of that type's adapter; the levels and flags the wrapper carries
\* are not used.
C38_WrapperKey == [][C38_Step]_vars

\* w1 was attached through a wrapper naming Readable and carrying ERROR and
\* an enabled output: its one record is a Readable for LOG with the input
\* enabled and the output not
C38_Witness ==
    /\ last.op = "attach" /\ last.threw = "none"
    /\ last.arg.wrapped /\ last.arg.io = "w1" /\ last.arg.type = "Readable"
    /\ \E i \in RecordsOf(io["A"], "w1") :
           /\ io["A"][i].type = "Readable"
           /\ io["A"][i].input.levels = {LOG} /\ io["A"][i].output.levels = {LOG}
           /\ io["A"][i].input.enabled /\ ~io["A"][i].output.enabled

=============================================================================
